---- MODULE Spec2Model ----
(***************************************************************************)
(* Model of turbo-tosec's ingestion pipeline: the scan command's resume /  *)
(* wipe decision (cli.py), the ImportSession strategies (session.py), the  *)
(* two record parsers (parser.py) and the destination tables               *)
(* (database.py).                                                          *)
(*                                                                         *)
(* Fault model.  File parses, chunk writes, destination write statements    *)
(* and the removal of the staging directory may raise; SELECTs on the      *)
(* tables created by _setup_schema and os.path.getsize on a discovered     *)
(* file do not.                                                            *)
(*                                                                         *)
(* The destination engine is a collaborator: a row is the record of the    *)
(* columns dat_filename, rom_name, size and crc, and the engine takes any  *)
(* row whose size casts to BIGINT; statements commit one by one.           *)
(***************************************************************************)
EXTENDS Integers, Sequences, FiniteSets, Bags, TLC

(***************************************************************************)
(* Bounds of the model.                                                    *)
(***************************************************************************)
MaxFiles == 2          \* files in one discovered / ingested list
MaxFaults == 1         \* environment faults injected in one program run
CpuCount == 2          \* multiprocessing.cpu_count() of the host
DirectChunkSize == 2   \* chunk_size of the Direct strategy, scaled down
StagedChunkSize == 2   \* chunk_size of the staging writer, scaled down
MaxTokenLen == 3       \* characters of a size token

(***************************************************************************)
(* Characters and small string helpers (strings are sequences of           *)
(* one-character strings).                                                 *)
(***************************************************************************)
Digits == <<"0", "1", "2", "3", "4", "5", "6", "7", "8", "9">>
HexLetters == <<"a", "b", "c", "d", "e", "f">>

IsDigit(c) == \E i \in 1..10 : Digits[i] = c
DigitVal(c) == (CHOOSE i \in 1..10 : Digits[i] = c) - 1
IsHexDigit(c) == IsDigit(c) \/ \E i \in 1..6 : HexLetters[i] = c
HexVal(c) == IF IsDigit(c) THEN DigitVal(c)
             ELSE 9 + (CHOOSE i \in 1..6 : HexLetters[i] = c)

\* str.lower() on one character
LowerChar(c) ==
    CASE c = "K" -> "k" [] c = "M" -> "m" [] c = "G" -> "g" [] c = "B" -> "b"
      [] c = "X" -> "x" [] c = "A" -> "a" [] c = "F" -> "f" [] c = "Z" -> "z"
      [] c = "N" -> "n" [] c = "L" -> "l" [] c = "R" -> "r" [] c = "O" -> "o"
      [] OTHER -> c
LowerStr(s) == [i \in 1..Len(s) |-> LowerChar(s[i])]

RECURSIVE LStrip(_)
LStrip(s) == IF s # <<>> /\ Head(s) = " " THEN LStrip(Tail(s)) ELSE s
RECURSIVE RStrip(_)
RStrip(s) == IF s # <<>> /\ s[Len(s)] = " " THEN RStrip(SubSeq(s, 1, Len(s) - 1)) ELSE s
Strip(s) == RStrip(LStrip(s))

StartsWith(s, p) == Len(s) >= Len(p) /\ SubSeq(s, 1, Len(p)) = p
EndsWith(s, p) == Len(s) >= Len(p) /\ SubSeq(s, Len(s) - Len(p) + 1, Len(s)) = p
\* Python's  p in s
Contains(s, p) == \E i \in 1..(Len(s) - Len(p) + 1) : SubSeq(s, i, i + Len(p) - 1) = p
RemoveChar(s, c) == SelectSeq(s, LAMBDA x : x # c)

RECURSIVE DecValue(_)
DecValue(s) == IF s = <<>> THEN 0
               ELSE 10 * DecValue(SubSeq(s, 1, Len(s) - 1)) + DigitVal(s[Len(s)])
RECURSIVE HexValue(_)
HexValue(s) == IF s = <<>> THEN 0
               ELSE 16 * HexValue(SubSeq(s, 1, Len(s) - 1)) + HexVal(s[Len(s)])

\* re.search(r"(\d+)", s): the first maximal run of decimal digits, <<>> if none
RECURSIVE DigitPrefix(_)
DigitPrefix(s) == IF s # <<>> /\ IsDigit(Head(s)) THEN <<Head(s)>> \o DigitPrefix(Tail(s))
                  ELSE <<>>
RECURSIVE FirstDigitRun(_)
FirstDigitRun(s) == IF s = <<>> THEN <<>>
                    ELSE IF IsDigit(Head(s)) THEN DigitPrefix(s)
                    ELSE FirstDigitRun(Tail(s))

(***************************************************************************)
(* Exceptions.  An exception value is its class and its message, the       *)
(* message a sequence of words, so that _handle_error's substring test on  *)
(* str(error).lower() is computed, not assumed.                            *)
(***************************************************************************)
Exc(c, m) == [cls |-> c, msg |-> m]
NoExc == Exc("none", <<>>)

XmlSyntaxError == Exc("ParseError", <<"syntax", "error">>)
InvalidHexError == Exc("ValueError", <<"Invalid", "Hex", "format">>)
UnparsableSizeError == Exc("ValueError", <<"Unknown/Unparsable", "size", "format">>)
ConversionError == Exc("ConversionException", <<"Conversion", "Error">>)
CallbackError == Exc("Exception", <<"progress", "callback", "failed">>)
NoBatchSizeError == Exc("AttributeError", <<"object", "has", "no", "attribute", "batch_size">>)
NoInsertBatchError == Exc("AttributeError", <<"object", "has", "no", "attribute", "insert_batch">>)
NoConnError == Exc("AttributeError", <<"object", "has", "no", "attribute", "conn">>)
NoImportError == Exc("AttributeError", <<"object", "has", "no", "attribute", "import_from_parquet_folder">>)
\* shutil.rmtree on a directory that holds a file it may not delete
RmtreeError == Exc("PermissionError", <<"Access", "is", "denied">>)

\* The fatal class of the specification: disk full (as POSIX and as Windows
\* word it), read-only file system, out of memory (str(MemoryError()) is empty).
DiskFullPosix == Exc("OSError", <<"No", "space", "left", "on", "device">>)
DiskFullWindows == Exc("OSError", <<"There", "is", "not", "enough", "space", "on", "the", "disk">>)
ReadOnlyFs == Exc("OSError", <<"Read-only", "file", "system">>)
OutOfMemory == Exc("MemoryError", <<>>)
FatalClass == {DiskFullPosix, DiskFullWindows, ReadOnlyFs, OutOfMemory}

LowerWord(w) ==
    CASE w = "No" -> "no" [] w = "There" -> "there" [] w = "Read-only" -> "read-only"
      [] w = "Error" -> "error" [] w = "Invalid" -> "invalid" [] w = "Hex" -> "hex"
      [] w = "CRITICAL:" -> "critical:" [] w = "Disk" -> "disk"
      [] w = "Conversion" -> "conversion" [] w = "Unknown/Unparsable" -> "unknown/unparsable"
      [] OTHER -> w
LowerMsg(m) == [i \in 1..Len(m) |-> LowerWord(m[i])]

(***************************************************************************)
(* parser.py: the size normalizer.                                         *)
(***************************************************************************)
Tok(chars) == [present |-> TRUE, chars |-> chars]
NoTok == [present |-> FALSE, chars |-> <<>>]

SizeOk(v) == [ok |-> TRUE, val |-> v, err |-> NoExc]
SizeErr(e) == [ok |-> FALSE, val |-> 0, err |-> e]

\* int(clean_hex, 16): blanks around the numeral, an optional sign, an
\* optional 0x prefix, then one or more hex digits
ParseHex(s) ==
    LET Digs(body, neg) ==
            IF body # <<>> /\ \A i \in 1..Len(body) : IsHexDigit(body[i])
            THEN SizeOk(IF neg THEN 0 - HexValue(body) ELSE HexValue(body))
            ELSE SizeErr(InvalidHexError)
        Unsigned(u, neg) ==
            Digs(IF StartsWith(u, <<"0", "x">>) THEN SubSeq(u, 3, Len(u)) ELSE u, neg)
        Signed(t) ==
            IF StartsWith(t, <<"-">>) THEN Unsigned(Tail(t), TRUE)
            ELSE IF StartsWith(t, <<"+">>) THEN Unsigned(Tail(t), FALSE)
            ELSE Unsigned(t, FALSE)
    IN  Signed(Strip(s))

UnitMultiplier(s) ==
    IF Contains(s, <<"k", "b">>) \/ Contains(s, <<"k", " ">>) \/ EndsWith(s, <<"k">>)
    THEN 1024
    ELSE IF Contains(s, <<"m", "b">>) \/ Contains(s, <<"m", " ">>) \/ EndsWith(s, <<"m">>)
    THEN 1024 * 1024
    ELSE IF Contains(s, <<"g", "b">>) \/ Contains(s, <<"g", " ">>) \/ EndsWith(s, <<"g">>)
    THEN 1024 * 1024 * 1024
    ELSE 1

\* a normalizer that gives 0 when it finds no number, as the docstring words it
TryParseSizeLenient(raw) ==
    IF ~raw.present \/ raw.chars = <<>> THEN SizeOk(0)
    ELSE LET s == LowerStr(Strip(raw.chars)) IN
         IF StartsWith(s, <<"0", "x">>) \/ StartsWith(s, <<"$">>)
         THEN ParseHex(RemoveChar(s, "$"))
         ELSE SizeOk(DecValue(FirstDigitRun(s)) * UnitMultiplier(s))

TryParseSize(raw) ==
    IF ~raw.present \/ raw.chars = <<>> THEN SizeOk(0)
    ELSE LET s == LowerStr(Strip(raw.chars)) IN
         IF StartsWith(s, <<"0", "x">>) \/ StartsWith(s, <<"$">>)
         THEN ParseHex(RemoveChar(s, "$"))
         ELSE LET run == FirstDigitRun(s) IN
              IF run # <<>> THEN SizeOk(DecValue(run) * UnitMultiplier(s))
              ELSE SizeErr(UnparsableSizeError)

(***************************************************************************)
(* Catalog files.  A path is a directory and a base name; an XML file is   *)
(* the sequence of its elements in document order, each with its tag, its  *)
(* depth below the root and its rom children; badAt = k > 0 places a       *)
(* syntax error right before element k ends (0: well-formed).              *)
(***************************************************************************)
Rom(n, s, c) == [name |-> n, size |-> s, crc |-> c]
Elem(t, d, r) == [tag |-> t, depth |-> d, roms |-> r]
DatFile(d, b, n, f, e, k) ==
    [dir |-> d, base |-> b, bytes |-> n, fmt |-> f, elems |-> e, badAt |-> k]

Catalog ==
    << DatFile("Amiga", "a.dat", 3, "xml",
               <<Elem("game", 1, <<Rom("r1", Tok(<<"1", "6">>), "c1"),
                                   Rom("r2", Tok(<<"3", "2">>), "c2")>>),
                 Elem("game", 1, <<Rom("r3", Tok(<<"7">>), "c3")>>)>>, 0),
       DatFile("Amiga", "b.dat", 2, "xml",
               <<Elem("game", 1, <<Rom("r4", Tok(<<"9">>), "c4")>>),
                 Elem("machine", 1, <<Rom("r5", Tok(<<"1", "k">>), "c5")>>)>>, 0),
       DatFile("Amiga", "c.dat", 1, "unknown", <<>>, 0),
       DatFile("Amiga", "d.dat", 2, "xml",
               <<Elem("game", 1, <<Rom("r6", Tok(<<"8">>), "c6")>>),
                 Elem("game", 1, <<Rom("r7", Tok(<<"z", "z">>), "c7")>>)>>, 0),
       DatFile("C64", "e.dat", 2, "xml",
               <<Elem("game", 1, <<Rom("r8", Tok(<<"4">>), "c8")>>),
                 Elem("game", 1, <<Rom("r9", Tok(<<"5">>), "c9")>>)>>, 2),
       DatFile("C64", "a.dat", 1, "xml",
               <<Elem("game", 1, <<Rom("r0", Tok(<<"6", "4">>), "c0")>>)>>, 0) >>

\* the characters of each base name
Spelling(b) ==
    CASE b = "a.dat" -> <<"a", ".", "d", "a", "t">>
      [] b = "b.dat" -> <<"b", ".", "d", "a", "t">>
      [] b = "c.dat" -> <<"c", ".", "d", "a", "t">>
      [] b = "d.dat" -> <<"d", ".", "d", "a", "t">>
      [] b = "e.dat" -> <<"e", ".", "d", "a", "t">>

\* os.path.basename, os.path.getsize, _detect_file_format on a catalog file
Basename(f) == f.base
GetSize(f) == f.bytes
DetectFileFormat(f) == f.fmt

(***************************************************************************)
(* parser.py: InMemoryParser.  Rows keep the raw size attribute.           *)
(***************************************************************************)
RawRow(f, r) == [file |-> Basename(f), rom |-> r.name, size |-> r.size, crc |-> r.crc]

RECURSIVE InMemoryRowsFrom(_, _)
InMemoryRowsFrom(f, i) ==
    IF i > Len(f.elems) THEN <<>>
    ELSE LET e == f.elems[i]
             mine == IF e.tag = "game" /\ e.depth = 1
                     THEN [j \in 1..Len(e.roms) |-> RawRow(f, e.roms[j])]
                     ELSE <<>>
         IN  mine \o InMemoryRowsFrom(f, i + 1)

\* ET.parse reads the whole document first; any exception is logged and the
\* rows collected so far (none, when the document is malformed) are returned.
InMemoryParseXml(f) == IF f.badAt > 0 THEN <<>> ELSE InMemoryRowsFrom(f, 1)

\* parse() returns None for an unknown format: like [], it is falsy.
InMemoryParse(f) == IF DetectFileFormat(f) = "xml" THEN InMemoryParseXml(f) ELSE <<>>

(***************************************************************************)
(* parser.py: TurboParser.  A stream is the rows it yields and the         *)
(* exception that ends it (NoExc: it ends normally).                       *)
(***************************************************************************)
Row(f, r, n) == [file |-> Basename(f), rom |-> r.name, size |-> n, crc |-> r.crc]
Stream(r, e) == [rows |-> r, err |-> e]

RECURSIVE TurboRomRows(_, _, _)
TurboRomRows(f, roms, j) ==
    IF j > Len(roms) THEN Stream(<<>>, NoExc)
    ELSE LET Cons(sz, rest) == IF ~sz.ok THEN Stream(<<>>, sz.err)
                               ELSE Stream(<<Row(f, roms[j], sz.val)>> \o rest.rows, rest.err)
         IN  Cons(TryParseSize(roms[j].size), TurboRomRows(f, roms, j + 1))

RECURSIVE TurboXmlFrom(_, _)
TurboXmlFrom(f, i) ==
    IF f.badAt = i THEN Stream(<<>>, XmlSyntaxError)
    ELSE IF i > Len(f.elems) THEN Stream(<<>>, NoExc)
    ELSE LET Cons(mine, rest) == IF mine.err # NoExc THEN mine
                                 ELSE Stream(mine.rows \o rest.rows, rest.err)
         IN  Cons(IF f.elems[i].tag \in {"game", "machine"}
                  THEN TurboRomRows(f, f.elems[i].roms, 1)
                  ELSE Stream(<<>>, NoExc),
                  TurboXmlFrom(f, i + 1))

TurboParseXml(f) == TurboXmlFrom(f, 1)

\* TurboParser.parse: an unknown format yields nothing and raises nothing
TurboParse(f) == IF DetectFileFormat(f) = "xml" THEN TurboParseXml(f) ELSE Stream(<<>>, NoExc)

(***************************************************************************)
(* State.                                                                  *)
(***************************************************************************)
VARIABLES
    roms,          \* destination table roms: a bag of rows
    processed,     \* destination table processed_files: a set of file names
    version,       \* db_metadata['tosec_version'], "none" when there is no row
    tempdir,       \* staging directory: [exists, chunks], chunks: path -> rows
    cfg,           \* the ImportSession as constructed: its db, args, workers, batch_size
    buffer,        \* ImportSession.buffer
    total_roms,    \* ImportSession.total_roms
    error_count,   \* ImportSession.error_count
    monitor,       \* progress-refresh thread: "none", "running", "stopped"
    pc,            \* where the program is
    mode,          \* the strategy of the running ingest call
    callback,      \* the progress sink of the running ingest call
    files,         \* the file list handed to ingest
    idx,           \* loop position of the serial and Direct strategies
    sent,          \* Direct: batches of files[idx] already handed to the destination
    fut,           \* pooled strategies: one future per file
    pbar,          \* UniversalProgress.current
    faults,        \* environment faults injected so far in this ingest call
    scan,          \* locals of run_scan_mode
    runs,          \* program runs started on this database file
    outcome,       \* how the last ingest call ended
    hist,          \* history: what each run dispatched and how it ended
    probe          \* a direct call of a parser function: [fn, arg, done, out]

vars == <<roms, processed, version, tempdir, cfg, buffer, total_roms, error_count,
          monitor, pc, mode, callback, files, idx, sent, fut, pbar, faults, scan,
          runs, outcome, hist, probe>>

\* A parser function called on its own, as the unit tests call it: the call
\* is pending until the function returns its result (or raises it).
NoProbe == [fn |-> "none", arg |-> <<>>, done |-> TRUE, out |-> <<>>]
Call(fn, arg) == [fn |-> fn, arg |-> arg, done |-> FALSE, out |-> <<>>]
Return(fn, out) ==
    /\ pc = "idle"
    /\ probe.fn = fn
    /\ ~probe.done
    /\ probe' = [probe EXCEPT !.done = TRUE, !.out = out]
    /\ UNCHANGED <<roms, processed, version, tempdir, cfg, buffer, total_roms, error_count,
                   monitor, pc, mode, callback, files, idx, sent, fut, pbar, faults, scan,
                   runs, outcome, hist>>

(***************************************************************************)
(* database.py                                                             *)
(***************************************************************************)
RECURSIVE BagOfSeq(_)
BagOfSeq(s) == IF s = <<>> THEN EmptyBag ELSE SetToBag({Head(s)}) (+) BagOfSeq(Tail(s))

\* The roms.size column is BIGINT: the engine casts a string parameter, and
\* refuses one that is not a decimal number.  A missing attribute is NULL (-1).
CastSize(raw) ==
    IF ~raw.present THEN [ok |-> TRUE, val |-> -1]
    ELSE LET s == Strip(raw.chars) IN
         IF s # <<>> /\ \A i \in 1..Len(s) : IsDigit(s[i])
         THEN [ok |-> TRUE, val |-> DecValue(s)]
         ELSE [ok |-> FALSE, val |-> 0]

CastRow(r) == [file |-> r.file, rom |-> r.rom, size |-> CastSize(r.size).val, crc |-> r.crc]

\* index of the first row the engine refuses, 0 when it takes them all
FirstBadRow(buf) ==
    IF \E i \in 1..Len(buf) : ~CastSize(buf[i].size).ok
    THEN CHOOSE i \in 1..Len(buf) : /\ ~CastSize(buf[i].size).ok
                                    /\ \A j \in 1..(i - 1) : CastSize(buf[j].size).ok
    ELSE 0

DbResult(r, p, e, u) == [roms |-> r, processed |-> p, exc |-> e, used |-> u]

\* DatabaseManager.insert_batch.  fault: the environment fault that hits this
\* call (NoExc: none), at point "rows" (the executemany) or "marks" (the first
\* INSERT INTO processed_files).  keep: whether the rows executed before a
\* failing row stay (autocommit) or not.
InsertBatch(r, p, buf, fault, point, keep) ==
    IF buf = <<>> THEN DbResult(r, p, NoExc, FALSE)
    ELSE IF fault # NoExc /\ point = "rows" THEN DbResult(r, p, fault, TRUE)
    ELSE LET Rows(n) == r (+) BagOfSeq([i \in 1..n |-> CastRow(buf[i])])
             Go(bad) ==
                 IF bad > 0
                 THEN DbResult(IF keep THEN Rows(bad - 1) ELSE r, p, ConversionError, FALSE)
                 ELSE IF fault # NoExc THEN DbResult(Rows(Len(buf)), p, fault, TRUE)
                 ELSE DbResult(Rows(Len(buf)), p \cup {buf[i].file : i \in 1..Len(buf)},
                               NoExc, FALSE)
         IN  Go(FirstBadRow(buf))

\* "INSERT INTO roms SELECT * FROM arrow_batch": one statement
InsertArrow(r, batch, fault) ==
    IF fault # NoExc THEN DbResult(r, {}, fault, TRUE)
    ELSE DbResult(r (+) BagOfSeq(batch), {}, NoExc, FALSE)

\* union of the rows of all chunk files of the staging directory
RECURSIVE ChunkRows(_, _)
ChunkRows(chunks, paths) ==
    IF paths = {} THEN EmptyBag
    ELSE LET q == CHOOSE q \in paths : TRUE
         IN  BagOfSeq(chunks[q]) (+) ChunkRows(chunks, paths \ {q})

\* DatabaseManager.import_from_parquet_folder
ImportFromParquetFolder(r, dir, fault) ==
    IF ~dir.exists THEN DbResult(r, {}, Exc("FileNotFoundError", <<"Parquet", "folder", "not", "found">>), FALSE)
    ELSE IF DOMAIN dir.chunks = {} THEN DbResult(r, {}, NoExc, FALSE)
    ELSE IF fault # NoExc THEN DbResult(r, {}, fault, TRUE)
    ELSE DbResult(r (+) ChunkRows(dir.chunks, DOMAIN dir.chunks), {}, NoExc, FALSE)

(***************************************************************************)
(* session.py: the coordinator's helpers, as functions of the session      *)
(* fields they read and write.                                             *)
(***************************************************************************)
Fields == [buffer |-> buffer, total |-> total_roms, errors |-> error_count,
           roms |-> roms, processed |-> processed, pbar |-> pbar]
Step(s, e, u) == [s |-> s, exc |-> e, used |-> u]

CriticalError == Exc("OSError", <<"CRITICAL:", "Disk", "is", "full", "or", "not", "writable!">>)

\* the test of _handle_error on str(error).lower()
IsFatalMessage(e) ==
    LET m == LowerMsg(e.msg)
    IN  \/ Contains(m, <<"not", "enough", "space">>)
        \/ Contains(m, <<"read-only", "file", "system">>)

\* ImportSession._handle_error: raises CriticalError or tallies the error
HandleError(s, e) ==
    IF IsFatalMessage(e) THEN Step(s, CriticalError, FALSE)
    ELSE Step([s EXCEPT !.errors = @ + 1], NoExc, FALSE)

\* try: pbar.update(os.path.getsize(f))  except: pbar.update(0)
\* UniversalProgress.update adds n to current before it calls the callback.
ProgressAdvance(s, f, cb) ==
    Step([s EXCEPT !.pbar = @ + GetSize(f)],
         IF cb = "raises" THEN CallbackError ELSE NoExc, FALSE)

\* ImportSession._flush_buffer
FlushBuffer(s, c, fault, point, keep) ==
    IF s.buffer = <<>> THEN Step(s, NoExc, FALSE)
    ELSE IF c.db # "db" THEN Step(s, NoInsertBatchError, FALSE)
    ELSE LET Go(r) ==
                 IF r.exc # NoExc
                 THEN Step([s EXCEPT !.roms = r.roms, !.processed = r.processed], r.exc, r.used)
                 ELSE Step([s EXCEPT !.roms = r.roms, !.processed = r.processed,
                                     !.total = @ + Len(s.buffer), !.buffer = <<>>],
                           NoExc, FALSE)
         IN  Go(InsertBatch(s.roms, s.processed, s.buffer, fault, point, keep))

\* ImportSession._process_result
ProcessResult(s, c, data, f, cb, fault, point, keep) ==
    LET Advance(fl, pr) == IF fl.exc # NoExc THEN fl ELSE Step(pr.s, pr.exc, fl.used)
        Flush(s1) ==
            IF data # <<>> /\ c.args # "namespace" THEN Step(s1, NoBatchSizeError, FALSE)
            ELSE IF data # <<>> /\ Len(s1.buffer) >= c.batch_size
            THEN FlushBuffer(s1, c, fault, point, keep)
            ELSE Step(s1, NoExc, FALSE)
        Go(fl) == Advance(fl, ProgressAdvance(fl.s, f, cb))
    IN  Go(Flush(IF data # <<>> THEN [s EXCEPT !.buffer = @ \o data] ELSE s))

\* try: <body> except Exception as error: self._handle_error(error, file_path)
Guarded(body) ==
    LET Go(h) == IF body.exc = NoExc THEN body ELSE Step(h.s, h.exc, body.used)
    IN  Go(HandleError(body.s, body.exc))

(***************************************************************************)
(* parser.py: the chunking of a record stream (parse_to_arrow_stream,      *)
(* parse_and_save_chunks): a batch leaves as soon as the buffer holds c    *)
(* records; the remainder leaves at the end, unless the stream raised.     *)
(***************************************************************************)
FullBatches(st, c) == Len(st.rows) \div c
\* a chunking that drops the remainder
HasTailNever(st, c) == FALSE
HasTail(st, c) == st.err = NoExc /\ Len(st.rows) % c # 0
NumBatches(st, c) == FullBatches(st, c) + (IF HasTail(st, c) THEN 1 ELSE 0)
\* the k-th batch, k in 1..NumBatches
Batch(st, c, k) ==
    SubSeq(st.rows, (k - 1) * c + 1, IF k * c <= Len(st.rows) THEN k * c ELSE Len(st.rows))

\* _write_chunk_arrow: the chunk's path is the safe name and the chunk index
IsSafeChar(x) == x \in {"a", "b", "c", "d", "e", "t", ".", "_", "-"} \/ IsDigit(x)
SafeName(b) == SelectSeq(Spelling(b), IsSafeChar)
ChunkPath(f, k) == <<SafeName(Basename(f)), k>>

\* TurboParser.parse_and_save_chunks on file f: the chunk files it writes and
\* the stats it returns or the exception it raises.  fault: the environment
\* fault that hits the task (out of memory while parsing, the others at the
\* first chunk write).
WrittenChunks(f, st, c) ==
    [q \in {ChunkPath(f, k - 1) : k \in 1..NumBatches(st, c)} |->
        Batch(st, c, (CHOOSE k \in 1..NumBatches(st, c) : ChunkPath(f, k - 1) = q))]
ParseAndSaveChunks(f, c, fault) ==
    LET Go(st) ==
            IF fault = OutOfMemory \/ (fault # NoExc /\ NumBatches(st, c) > 0)
            THEN [chunks |-> <<>>, stats |-> [roms |-> 0, chunks |-> 0], exc |-> fault,
                  used |-> TRUE]
            ELSE [chunks |-> WrittenChunks(f, st, c),
                  stats |-> [roms |-> Len(st.rows), chunks |-> FullBatches(st, c) + 1],
                  exc |-> st.err, used |-> FALSE]
    IN  Go(TurboParse(f))

\* session.py worker_staged_task: any exception becomes
\* RuntimeError(f"Error in {basename}: {error}")
WorkerStagedTask(f, c, fault) ==
    LET Wrap(r) ==
            IF r.exc = NoExc THEN r
            ELSE [r EXCEPT !.exc = Exc("RuntimeError",
                                       <<"Error", "in", Basename(f)>> \o r.exc.msg)]
    IN  Wrap(ParseAndSaveChunks(f, c, fault))

\* session.py worker_parse_task / InMemoryParser.parse under a fault: the
\* parser's own except clause swallows it and returns the rows collected.
WorkerParseTask(f, fault) == IF fault # NoExc THEN <<>> ELSE InMemoryParse(f)

(***************************************************************************)
(* Inputs.                                                                 *)
(***************************************************************************)
RECURSIVE SortedSeq(_)
SortedSeq(S) == IF S = {} THEN <<>>
                ELSE LET m == CHOOSE m \in S : \A x \in S : m <= x
                     IN  <<m>> \o SortedSeq(S \ {m})
\* file lists, as catalog indices in the directory walk's order
FileLists == {SortedSeq(S) : S \in {T \in SUBSET (1..Len(Catalog)) : Cardinality(T) <= MaxFiles}}
File(i) == Catalog[i]

Modes == {"legacy", "staged", "direct"}
\* the progress sink: "none" is the console bar (a host callback that returns
\* behaves like it), "raises" a host callback that raises
Callbacks == {"none", "raises"}
BatchSizes == {1, 4}
Versions == {"v1", "v2"}
DefaultBatchSize == 1000

FaultChoices == IF faults < MaxFaults THEN FatalClass \cup {NoExc} ELSE {NoExc}
ParseFaults == IF faults < MaxFaults THEN {OutOfMemory, NoExc} ELSE {NoExc}
Count(e) == IF e # NoExc THEN 1 ELSE 0

(***************************************************************************)
(* session.py: ImportSession.__init__                                      *)
(***************************************************************************)
EffectiveWorkers(w) == IF w <= 0 \/ w > CpuCount THEN CpuCount ELSE w

\* db: what the session holds as self.db ("db": a DatabaseManager,
\* "namespace": the parsed arguments); args: what it holds as self.args
\* ("namespace", "none", or "db": a DatabaseManager).  A DatabaseManager has
\* no workers and no batch_size attribute, so getattr gives the defaults.
\* w: the worker count the caller asked for, as the constructor's parameter
\* or as the workers option of the namespace.  flag: the strategy option of
\* the namespace a scan builds the session from ("none": a library caller).
Construct(d, a, w, b) ==
    [db |-> d, args |-> a,
     requested |-> w,
     workers |-> EffectiveWorkers(IF a = "db" THEN 0 ELSE w),
     batch_size |-> IF a = "db" THEN DefaultBatchSize ELSE b,
     flag |-> "none"]

\* ImportSession.run: the mode it passes to ingest; flag is the strategy
\* flag of the parsed arguments
RunMode(c, flag) ==
    IF c.args = "namespace" /\ flag = "direct" THEN "direct"
    ELSE IF c.args = "namespace" /\ flag = "staged" THEN "staged"
    ELSE "legacy"

(***************************************************************************)
(* How an ingest call ends.                                                *)
(***************************************************************************)
NoOutcome == [kind |-> "none", total |-> 0, errors |-> 0, exc |-> NoExc]
NoScan == [all |-> <<>>, cur |-> "none", dbv |-> "none", resume |-> FALSE,
           force_new |-> FALSE, resume_mode |-> FALSE, list |-> <<>>, wipe |-> "none"]
Entry == IF scan = NoScan THEN "library" ELSE "scan"
Past(e, m, fs, k, t, n) ==
    [entry |-> e, mode |-> m, files |-> fs, ended |-> k, total |-> t, errors |-> n]

Assign(s) ==
    /\ buffer' = s.buffer
    /\ total_roms' = s.total
    /\ error_count' = s.errors
    /\ roms' = s.roms
    /\ processed' = s.processed
    /\ pbar' = s.pbar

\* the In-Memory or Direct strategy is left: ingest's finally clause has
\* nothing to remove, then the return or the propagating exception
End(kind, e, s) ==
    /\ pc' = "idle"
    /\ outcome' = [kind |-> kind, total |-> s.total, errors |-> s.errors, exc |-> e]
    /\ hist' = Append(hist, Past(Entry, mode, files, kind, s.total, s.errors))
    /\ tempdir' = tempdir
    /\ scan' = NoScan

\* the Staged strategy is left, "returning" or "raising": ingest's finally
\* clause has the staging directory to remove
Leave(kind, e, s) ==
    /\ pc' = "cleanup"
    /\ outcome' = [kind |-> kind, total |-> s.total, errors |-> s.errors, exc |-> e]
    /\ UNCHANGED <<hist, tempdir, scan>>

\* ImportSession._prepare_temp_dir: rmtree, whose failure is printed (the
\* chunk files stay), then mkdir
NoDir == [exists |-> FALSE, chunks |-> <<>>]
PrepareTempDir(dir, ok) == [exists |-> TRUE, chunks |-> IF ok THEN <<>> ELSE dir.chunks]

\* ImportSession.ingest on a session just constructed as c; n: the
\* environment faults already spent
StartIngest(c, fs, m, cb, n) ==
    /\ cfg' = c
    /\ buffer' = <<>>
    /\ files' = fs
    /\ mode' = m
    /\ callback' = cb
    /\ pbar' = 0
    /\ idx' = 1
    /\ sent' = 0
    /\ total_roms' = 0
    /\ error_count' = 0
    /\ UNCHANGED <<roms, processed, version>>
    /\ IF fs = <<>>
       THEN /\ pc' = "idle"
            /\ outcome' = [kind |-> "returned", total |-> 0, errors |-> 0, exc |-> NoExc]
            /\ hist' = Append(hist, Past(Entry, m, fs, "returned", 0, 0))
            /\ scan' = NoScan
            /\ fut' = <<>>
            /\ faults' = n
            /\ UNCHANGED <<tempdir, monitor>>
       ELSE /\ outcome' = NoOutcome
            /\ UNCHANGED <<hist, scan>>
            /\ \E ok \in BOOLEAN :
                 /\ ok \/ (m = "staged" /\ tempdir.exists /\ n < MaxFaults)
                 /\ faults' = n + (IF ok THEN 0 ELSE 1)
                 /\ tempdir' = IF m = "staged" THEN PrepareTempDir(tempdir, ok) ELSE tempdir
            /\ monitor' = IF m = "direct" THEN "none" ELSE "running"
            /\ fut' = IF m = "staged" \/ (m = "legacy" /\ c.workers >= 2)
                      THEN [i \in 1..Len(fs) |-> [st |-> "pending", data |-> <<>>,
                                                  roms |-> 0, exc |-> NoExc]]
                      ELSE <<>>
            /\ pc' = IF m = "direct" THEN "direct"
                     ELSE IF m = "staged" \/ c.workers >= 2 THEN "pool"
                     ELSE "serial"

\* a library caller constructs a session and calls ingest
LibraryIngest ==
    /\ pc = "idle"
    /\ runs = 0
    /\ runs' = runs + 1
    /\ UNCHANGED probe
    /\ \E a \in {"namespace", "none"}, w \in 0..(CpuCount + 1), b \in BatchSizes,
          fs \in FileLists, m \in Modes, cb \in Callbacks :
          StartIngest(Construct("db", a, w, b), fs, m, cb, 0)

\* the same, in an environment that injects no fault and with the console bar
QuietLibraryIngest ==
    /\ pc = "idle"
    /\ runs = 0
    /\ runs' = runs + 1
    /\ UNCHANGED probe
    /\ \E a \in {"namespace", "none"}, w \in 0..(CpuCount + 1), b \in BatchSizes,
          fs \in FileLists, m \in Modes :
          StartIngest(Construct("db", a, w, b), fs, m, "none", MaxFaults)

(***************************************************************************)
(* session.py: In-Memory strategy                                          *)
(***************************************************************************)
\* the end of _run_in_memory_mode: _stop_monitor, then the last _flush_buffer
FinishInMemory ==
    \E df \in FaultChoices, point \in {"rows", "marks"}, keep \in BOOLEAN :
      \E fl \in {FlushBuffer(Fields, cfg, df, point, keep)} :
        /\ df = NoExc \/ fl.used
        /\ faults' = faults + Count(df)
        /\ monitor' = "stopped"
        /\ Assign(fl.s)
        /\ IF fl.exc # NoExc THEN End("raised", fl.exc, fl.s) ELSE End("returned", NoExc, fl.s)
        /\ UNCHANGED <<version, cfg, mode, callback, files, idx, sent, fut, runs, probe>>

\* one iteration of _run_serial
RunSerialStep ==
    /\ pc = "serial"
    /\ idx <= Len(files)
    /\ \E pf \in ParseFaults, df \in FaultChoices, point \in {"rows", "marks"}, keep \in BOOLEAN :
      \E body \in {ProcessResult(Fields, cfg, WorkerParseTask(File(files[idx]), pf),
                                  File(files[idx]), callback, df, point, keep)} :
        \E g \in {Guarded(body)} :
            /\ pf = NoExc \/ df = NoExc
            /\ df = NoExc \/ body.used
            /\ faults' = faults + Count(pf) + Count(df)
            /\ Assign(g.s)
            /\ IF g.exc # NoExc
               THEN End("raised", g.exc, g.s) /\ UNCHANGED idx
               ELSE idx' = idx + 1 /\ UNCHANGED <<pc, outcome, hist, tempdir, scan>>
    /\ UNCHANGED <<version, cfg, monitor, mode, callback, files, sent, fut, runs, probe>>

RunSerialEnd ==
    /\ pc = "serial"
    /\ idx > Len(files)
    /\ FinishInMemory

(***************************************************************************)
(* session.py: the worker pool of _run_parallel and _run_staged_mode       *)
(***************************************************************************)
Running == {i \in DOMAIN fut : fut[i].st = "running"}
Pending == {i \in DOMAIN fut : fut[i].st = "pending"}

\* a free worker process takes the next task of the call queue
WorkerStart(i) ==
    /\ pc \in {"pool", "pool_fatal"}
    /\ i \in Pending
    /\ \A j \in Pending : i <= j
    /\ Cardinality(Running) < cfg.workers
    /\ fut' = [fut EXCEPT ![i].st = "running"]
    /\ UNCHANGED <<roms, processed, version, tempdir, cfg, buffer, total_roms, error_count,
                   monitor, pc, mode, callback, files, idx, sent, pbar, faults, scan,
                   runs, outcome, hist, probe>>

\* a worker that adds the records it parsed to the session's running total
WorkerFinishCounting(i) ==
    /\ pc \in {"pool", "pool_fatal"}
    /\ i \in Running
    /\ fut' = [fut EXCEPT ![i] = [st |-> "done",
                                  data |-> WorkerParseTask(File(files[i]), NoExc),
                                  roms |-> 0, exc |-> NoExc]]
    /\ total_roms' = total_roms + Len(WorkerParseTask(File(files[i]), NoExc))
    /\ UNCHANGED <<roms, processed, version, tempdir, cfg, buffer, error_count,
                   monitor, pc, mode, callback, files, idx, sent, pbar, faults, scan,
                   runs, outcome, hist, probe>>

\* a worker process finishes its task: worker_parse_task or worker_staged_task
WorkerFinish(i) ==
    /\ pc \in {"pool", "pool_fatal"}
    /\ i \in Running
    /\ IF mode = "legacy"
       THEN \E pf \in ParseFaults :
              /\ fut' = [fut EXCEPT ![i] = [st |-> "done",
                                            data |-> WorkerParseTask(File(files[i]), pf),
                                            roms |-> 0, exc |-> NoExc]]
              /\ faults' = faults + Count(pf)
              /\ UNCHANGED tempdir
       ELSE \E wf \in FaultChoices :
            \E r \in {WorkerStagedTask(File(files[i]), StagedChunkSize, wf)} :
              /\ wf = NoExc \/ r.used
              /\ fut' = [fut EXCEPT ![i] = [st |-> "done", data |-> <<>>,
                                            roms |-> r.stats.roms, exc |-> r.exc]]
              /\ faults' = faults + Count(wf)
              /\ tempdir' = [exists |-> TRUE, chunks |-> r.chunks @@ tempdir.chunks]
    /\ UNCHANGED <<roms, processed, version, cfg, buffer, total_roms, error_count,
                   monitor, pc, mode, callback, files, idx, sent, pbar, scan,
                   runs, outcome, hist, probe>>

\* a coordinator that loads each result's rows as it arrives
StagedResultLoading(s, r, f, cb) ==
    IF r.exc # NoExc THEN Step(s, r.exc, FALSE)
    ELSE ProgressAdvance([s EXCEPT !.total = @ + r.roms,
                                   !.roms = @ (+) BagOfSeq(TurboParse(f).rows)], f, cb)

\* the body of the as_completed loop of _run_staged_mode for one result
StagedResult(s, r, f, cb) ==
    IF r.exc # NoExc THEN Step(s, r.exc, FALSE)
    ELSE ProgressAdvance([s EXCEPT !.total = @ + r.roms], f, cb)

\* the body of the as_completed loop of _run_parallel for one result
ParallelResult(s, c, r, f, cb, df, point, keep) ==
    IF r.exc # NoExc THEN Step(s, r.exc, FALSE)
    ELSE ProcessResult(s, c, r.data, f, cb, df, point, keep)

\* the coordinator takes a completed future and handles its result; an
\* exception of _handle_error leaves the loop, and the executor is shut down
\* with wait=True
CoordinatorHandle(i) ==
    /\ pc = "pool"
    /\ i \in DOMAIN fut
    /\ fut[i].st = "done"
    /\ \E df \in FaultChoices, point \in {"rows", "marks"}, keep \in BOOLEAN :
      \E body \in {IF mode = "staged"
                    THEN StagedResult(Fields, fut[i], File(files[i]), callback)
                    ELSE ParallelResult(Fields, cfg, fut[i], File(files[i]), callback,
                                        df, point, keep)} :
        \E g \in {Guarded(body)} :
            /\ df = NoExc \/ body.used
            /\ faults' = faults + Count(df)
            /\ Assign(g.s)
            /\ IF g.exc # NoExc
               THEN /\ pc' = "pool_fatal"
                    /\ UNCHANGED fut
                    /\ outcome' = [kind |-> "raising", total |-> g.s.total,
                                   errors |-> g.s.errors, exc |-> g.exc]
               ELSE /\ fut' = [fut EXCEPT ![i].st = "handled"]
                    /\ UNCHANGED <<pc, outcome>>
    /\ UNCHANGED <<version, tempdir, cfg, monitor, mode, callback, files, idx, sent,
                   scan, runs, hist, probe>>

\* after a raise: shutdown(wait=True) has returned, the exception propagates
\* (_run_staged_mode stops the monitor in its finally clause, _run_parallel
\* does not)
PoolShutdown ==
    /\ pc = "pool_fatal"
    /\ Running = {} /\ Pending = {}
    /\ monitor' = IF mode = "staged" THEN "stopped" ELSE monitor
    /\ IF mode = "staged" THEN Leave("raising", outcome.exc, Fields)
       ELSE End("raised", outcome.exc, Fields)
    /\ UNCHANGED <<roms, processed, version, cfg, buffer, total_roms, error_count,
                   mode, callback, files, idx, sent, fut, pbar, faults, runs, probe>>

\* the end of _run_staged_mode: the bulk load, whose failure is printed
FinishStaged ==
    \E df \in FaultChoices :
      \E r \in {IF total_roms = 0 THEN DbResult(roms, {}, NoExc, FALSE)
                 ELSE IF cfg.db # "db" THEN DbResult(roms, {}, NoImportError, FALSE)
                 ELSE ImportFromParquetFolder(roms, tempdir, df)} :
            /\ df = NoExc \/ r.used
            /\ faults' = faults + Count(df)
            /\ monitor' = "stopped"
            /\ roms' = r.roms
            /\ Leave("returning", NoExc, Fields)
            /\ UNCHANGED <<processed, version, cfg, buffer, total_roms, error_count,
                           mode, callback, files, idx, sent, fut, pbar, runs, probe>>

\* every future has been handled: the as_completed loop ends
PoolDone ==
    /\ pc = "pool"
    /\ \A i \in DOMAIN fut : fut[i].st = "handled"
    /\ IF mode = "staged" THEN FinishStaged ELSE FinishInMemory

\* ingest's finally clause after the Staged strategy: rmtree of the staging
\* directory; its exception replaces the one that was propagating
RemoveTempDir ==
    /\ pc = "cleanup"
    /\ \E ok \in BOOLEAN :
        /\ ok \/ (tempdir.exists /\ faults < MaxFaults)
        /\ faults' = faults + (IF ok THEN 0 ELSE 1)
        /\ tempdir' = IF ok THEN NoDir ELSE tempdir
        /\ \E kind \in {IF ok /\ outcome.kind = "returning" THEN "returned" ELSE "raised"} :
            /\ outcome' = [outcome EXCEPT !.kind = kind,
                                          !.exc = IF ok THEN @ ELSE RmtreeError]
            /\ hist' = Append(hist, Past(Entry, mode, files, kind, total_roms, error_count))
    /\ pc' = "idle"
    /\ scan' = NoScan
    /\ UNCHANGED <<roms, processed, version, cfg, buffer, total_roms, error_count, monitor,
                   mode, callback, files, idx, sent, fut, pbar, runs, probe>>

(***************************************************************************)
(* session.py: Direct strategy                                             *)
(***************************************************************************)
\* the body of the try of _run_direct_mode at the k-th step on the stream st
\* of file f: the next batch is inserted, or the stream has ended (normally
\* or by raising) and the progress advances
DirectBody(s, c, st, k, f, cb, df) ==
    LET Insert(batch) ==
            LET Go(ins) ==
                    IF ins.exc # NoExc
                    THEN Step([s EXCEPT !.roms = ins.roms], ins.exc, ins.used)
                    ELSE Step([s EXCEPT !.roms = ins.roms, !.total = @ + Len(batch)],
                              NoExc, FALSE)
            IN  Go(IF c.db # "db" THEN DbResult(s.roms, {}, NoConnError, FALSE)
                   ELSE InsertArrow(s.roms, batch, df))
    IN  IF k < NumBatches(st, DirectChunkSize) THEN Insert(Batch(st, DirectChunkSize, k + 1))
        ELSE IF st.err # NoExc THEN Step(s, st.err, FALSE)
        ELSE ProgressAdvance(s, f, cb)

\* one step of _run_direct_mode on files[idx]
DirectStep ==
    /\ pc = "direct"
    /\ idx <= Len(files)
    /\ \E pf \in ParseFaults, df \in FaultChoices :
      \E st \in {IF pf # NoExc THEN Stream(<<>>, pf) ELSE TurboParse(File(files[idx]))} :
       \E more \in {sent < NumBatches(st, DirectChunkSize)} :
        \E body \in {DirectBody(Fields, cfg, st, sent, File(files[idx]), callback, df)} :
         \E g \in {Guarded(body)} :
            /\ pf = NoExc \/ (sent = 0 /\ df = NoExc)
            /\ df = NoExc \/ body.used
            /\ faults' = faults + Count(pf) + Count(df)
            /\ Assign(g.s)
            /\ IF g.exc # NoExc
               THEN End("raised", g.exc, g.s) /\ UNCHANGED <<idx, sent>>
               ELSE /\ UNCHANGED <<pc, outcome, hist, tempdir, scan>>
                    /\ IF more /\ body.exc = NoExc
                       THEN sent' = sent + 1 /\ UNCHANGED idx
                       ELSE sent' = 0 /\ idx' = idx + 1
    /\ UNCHANGED <<version, cfg, monitor, mode, callback, files, fut, runs, probe>>

DirectEnd ==
    /\ pc = "direct"
    /\ idx > Len(files)
    /\ End("returned", NoExc, Fields)
    /\ UNCHANGED <<roms, processed, version, cfg, buffer, total_roms, error_count,
                   monitor, mode, callback, files, idx, sent, fut, pbar, faults, runs, probe>>

(***************************************************************************)
(* cli.py: run_scan_mode                                                   *)
(***************************************************************************)
\* the resume / wipe decision; q1 and q2 are the answers typed at the prompts
ResumeDecision(dbv, cur, done, resume, force_new, q1, q2) ==
    IF dbv # "none" /\ dbv # cur
    THEN IF force_new \/ q1 = "y" THEN "fresh" ELSE "declined"
    ELSE IF done # {} /\ (resume \/ (~force_new /\ q2 # "s")) THEN "resume"
    ELSE "fresh"

\* a resume list keyed by the directory name instead of the base name
ResumeListByDir(all, done) == SelectSeq(all, LAMBDA i : File(i).dir \notin done)

\* files_to_process of a resumed scan
ResumeList(all, done) == SelectSeq(all, LAMBDA i : Basename(File(i)) \notin done)

\* DatabaseManager.wipe_database: the DELETEs run one by one; statement k
\* raising (k = 0: none does) ends the wipe, and the exception is printed
WipeDatabase(db, k) ==
    [roms |-> IF k = 1 THEN db.roms ELSE EmptyBag,
     processed |-> IF k \in {1, 2} THEN db.processed ELSE {},
     version |-> IF k \in {1, 2, 3} THEN db.version ELSE "none"]

\* run_scan_mode up to the decision, on a directory whose walk gives one of
\* the lists of Dirs
BeginScan(Dirs) ==
    /\ pc = "idle"
    /\ runs' = runs + 1
    /\ UNCHANGED probe
    /\ \E all \in Dirs \ {<<>>}, cur \in Versions, resume \in BOOLEAN,
          force_new \in BOOLEAN, q1 \in {"y", "n"}, q2 \in {"s", "r"} :
        LET d == ResumeDecision(version, cur, processed, resume, force_new, q1, q2)
            sc == [all |-> all, cur |-> cur, dbv |-> version, resume |-> resume,
                   force_new |-> force_new,
                   resume_mode |-> d = "resume", list |-> <<>>, wipe |-> "none"]
        IN  IF d = "declined"
            THEN /\ hist' = Append(hist, Past("scan", "none", <<>>, "declined", 0, 0))
                 /\ UNCHANGED <<pc, scan>>
            ELSE /\ scan' = sc
                 /\ pc' = IF d = "resume" THEN "scan_resume" ELSE "scan_wipe"
                 /\ UNCHANGED hist
    /\ UNCHANGED <<roms, processed, version, tempdir, cfg, buffer, total_roms, error_count,
                   monitor, mode, callback, files, idx, sent, fut, pbar, faults, outcome>>

\* a scan is the first run on the database file
ScanBegin == runs = 0 /\ BeginScan(FileLists)

\* the files of list fs
Range(fs) == {fs[i] : i \in DOMAIN fs}

\* a scan follows a library import, of a directory that holds the files
\* imported
ScanAfterImport ==
    /\ runs = 1
    /\ BeginScan({fs \in FileLists : Range(files) \subseteq Range(fs)})

ScanWipe ==
    /\ pc = "scan_wipe"
    /\ \E k \in 0..4 :
        LET w == WipeDatabase([roms |-> roms, processed |-> processed, version |-> version], k)
        IN  /\ k = 0 \/ faults < MaxFaults
            /\ faults' = faults + (IF k = 0 THEN 0 ELSE 1)
            /\ roms' = w.roms
            /\ processed' = w.processed
            /\ version' = w.version
            /\ scan' = [scan EXCEPT !.wipe = IF k = 0 THEN "done" ELSE "failed"]
    /\ pc' = "scan_setversion"
    /\ UNCHANGED <<tempdir, cfg, buffer, total_roms, error_count, monitor, mode, callback,
                   files, idx, sent, fut, pbar, runs, outcome, hist, probe>>

\* set_metadata_value, then files_to_process = all_dat_files; the statement
\* raising ends run_scan_mode
ScanSetVersion ==
    /\ pc = "scan_setversion"
    /\ \E ok \in BOOLEAN :
        IF ok
        THEN /\ version' = scan.cur
             /\ scan' = [scan EXCEPT !.list = scan.all]
             /\ pc' = "scan_dispatch"
             /\ UNCHANGED <<hist, faults>>
        ELSE /\ faults < MaxFaults
             /\ faults' = faults + 1
             /\ hist' = Append(hist, Past("scan", "none", <<>>, "error", 0, 0))
             /\ scan' = NoScan
             /\ pc' = "idle"
             /\ UNCHANGED version
    /\ UNCHANGED <<roms, processed, tempdir, cfg, buffer, total_roms, error_count, monitor,
                   mode, callback, files, idx, sent, fut, pbar, runs, outcome, probe>>

ScanResumeList ==
    /\ pc = "scan_resume"
    /\ scan' = [scan EXCEPT !.list = ResumeList(scan.all, processed)]
    /\ pc' = "scan_dispatch"
    /\ UNCHANGED <<roms, processed, version, tempdir, cfg, buffer, total_roms, error_count,
                   monitor, mode, callback, files, idx, sent, fut, pbar, faults, runs,
                   outcome, hist, probe>>

\* "Nothing to do", or ImportSession(args, db, all_dat_files) and session.run:
\* the constructor's first parameter is the database manager, its second the
\* arguments, so the session holds the arguments as its db and the database
\* manager as its args; flag and w are the strategy and workers options
ScanDispatch ==
    /\ pc = "scan_dispatch"
    /\ IF scan.list = <<>>
       THEN /\ hist' = Append(hist, Past("scan", "none", <<>>, "nothing", 0, 0))
            /\ scan' = NoScan
            /\ pc' = "idle"
            /\ UNCHANGED <<roms, processed, version, tempdir, cfg, buffer, total_roms,
                           error_count, monitor, mode, callback, files, idx, sent, fut,
                           pbar, faults, outcome>>
       ELSE \E flag \in Modes, w \in 0..(CpuCount + 1) :
              LET c == [Construct("namespace", "db", w, DefaultBatchSize) EXCEPT !.flag = flag]
              IN  StartIngest(c, scan.list, RunMode(c, flag), "none", faults)
    /\ UNCHANGED <<runs, probe>>

(***************************************************************************)
(* The program.  A database file outlives the program runs: Init ranges    *)
(* over the files earlier runs leave (nothing imported yet, or files       *)
(* imported by the In-Memory strategy, with or without a version tag).     *)
(***************************************************************************)
CleanFiles == {1, 2}
RECURSIVE ImportedRows(_)
ImportedRows(S) ==
    IF S = {} THEN EmptyBag
    ELSE LET i == CHOOSE i \in S : TRUE
             rows == InMemoryParse(File(i))
         IN  BagOfSeq([j \in 1..Len(rows) |-> CastRow(rows[j])]) (+) ImportedRows(S \ {i})

\* the database file of an earlier run that imported the files of S, and the
\* session state before the first call
InitAll(S, v, d, p) ==
    /\ roms = ImportedRows(S)
    /\ processed = {Basename(File(i)) : i \in S}
    /\ version = v
    /\ tempdir = d
    /\ cfg = Construct("db", "none", 0, DefaultBatchSize)
    /\ buffer = <<>>
    /\ total_roms = 0
    /\ error_count = 0
    /\ monitor = "none"
    /\ pc = "idle"
    /\ mode = "legacy"
    /\ callback = "none"
    /\ files = <<>>
    /\ idx = 1
    /\ sent = 0
    /\ fut = <<>>
    /\ pbar = 0
    /\ faults = 0
    /\ scan = NoScan
    /\ runs = 0
    /\ outcome = NoOutcome
    /\ hist = <<>>
    /\ probe = p

InitDir(S, v, d) == InitAll(S, v, d, NoProbe)

InitWith(S, v) == InitDir(S, v, NoDir)

Init == \E S \in SUBSET CleanFiles, v \in {"none", "v1"} : InitWith(S, v)

\* a database file just created
InitFresh == InitWith({}, "none")

Next ==
    \/ LibraryIngest
    \/ ScanBegin
    \/ ScanWipe
    \/ ScanSetVersion
    \/ ScanResumeList
    \/ ScanDispatch
    \/ RunSerialStep
    \/ RunSerialEnd
    \/ \E i \in 1..MaxFiles : WorkerStart(i)
    \/ \E i \in 1..MaxFiles : WorkerFinish(i)
    \/ \E i \in 1..MaxFiles : CoordinatorHandle(i)
    \/ PoolShutdown
    \/ PoolDone
    \/ RemoveTempDir
    \/ DirectStep
    \/ DirectEnd

Spec == Init /\ [][Next]_vars

\* a library import in a quiet environment, then a scan of the same database
\* (no fault, so no fatal error: the pool is never shut down by a raise)
NextResume ==
    \/ QuietLibraryIngest
    \/ ScanAfterImport
    \/ ScanWipe
    \/ ScanSetVersion
    \/ ScanResumeList
    \/ ScanDispatch
    \/ RunSerialStep
    \/ RunSerialEnd
    \/ \E i \in 1..MaxFiles : WorkerStart(i)
    \/ \E i \in 1..MaxFiles : WorkerFinish(i)
    \/ \E i \in 1..MaxFiles : CoordinatorHandle(i)
    \/ PoolDone
    \/ RemoveTempDir
    \/ DirectStep
    \/ DirectEnd

SpecResume == InitFresh /\ [][NextResume]_vars

\* the staging directory as an earlier Staged run of Amiga/b.dat leaves it
\* when the rmtree of its finally clause failed
StaleDir ==
    [exists |-> TRUE,
     chunks |-> WrittenChunks(File(2), TurboParse(File(2)), StagedChunkSize)]
InitStale == InitDir({}, "none", StaleDir)

\* a library caller runs the Staged strategy with the default batch size
StagedLibraryIngest ==
    /\ pc = "idle"
    /\ runs = 0
    /\ runs' = runs + 1
    /\ UNCHANGED probe
    /\ \E a \in {"namespace", "none"}, w \in 0..(CpuCount + 1), fs \in FileLists,
          cb \in Callbacks :
          StartIngest(Construct("db", a, w, DefaultBatchSize), fs, "staged", cb, 0)

\* one Staged library import, started with a staging directory left behind
NextStaged ==
    \/ StagedLibraryIngest
    \/ \E i \in 1..MaxFiles : WorkerStart(i)
    \/ \E i \in 1..MaxFiles : WorkerFinish(i)
    \/ \E i \in 1..MaxFiles : CoordinatorHandle(i)
    \/ PoolShutdown
    \/ PoolDone
    \/ RemoveTempDir

SpecStaged == InitStale /\ [][NextStaged]_vars

(***************************************************************************)
(* The size normalizer called on its own, on every token of up to          *)
(* MaxTokenLen characters of a small alphabet and on a few longer ones.   *)
(***************************************************************************)
Strings(A, n) == UNION {[1..k -> A] : k \in 0..n}
SizeTokens ==
    LET Alphabet == {"0", "1", "k", "b", "m", " ", "x", "$", "f", "Z"}
        Long == { <<"1", "0", "2", "4">>, <<"1", "0", " ", "m", "b">>,
                  <<"0", "x", "1", "0">>, <<"0", "x", "Z", "Z">>, <<"1", "g">>,
                  <<"1", " ", "G", "B">>, <<"1", "K", "B">>, <<"$", "-", "1", "0">>,
                  <<"N", "o", "n", "e">> }
    IN  {NoTok} \cup {Tok(c) : c \in Strings(Alphabet, MaxTokenLen) \cup Long}

InitSize == \E t \in SizeTokens : InitAll({}, "none", NoDir, Call("_try_parse_size", t))
TryParseSizeCall == Return("_try_parse_size", TryParseSize(probe.arg))
SpecSize == InitSize /\ [][TryParseSizeCall]_vars

(***************************************************************************)
(* parser.py: legacy-text (CMP) extraction.  The content of a file is the  *)
(* sequence of its lexemes: "game (" and "rom (" (the block openers),      *)
(* "Game (" (the same word capitalised, inside a quoted text), "(", ")",   *)
(* the keys "name", "description", "size", "crc", "quote" (a double        *)
(* quote), "nl" (a line end), digits, and words of text.                   *)
(***************************************************************************)
MaxGames == 2          \* game blocks of a legacy-text file
MaxRoms == 2           \* rom clauses of a game block

\* the least index of s, from index p on, whose lexeme satisfies P; 0: none
FirstAt(s, p, P(_)) ==
    LET S == {i \in p..Len(s) : P(s[i])}
    IN  IF S = {} THEN 0 ELSE CHOOSE i \in S : \A j \in S : i <= j

\* a search that gives the name "Unknown" where the text holds no name
CmpQuotedOrUnknown(text, key) ==
    LET Close(i) == FirstAt(text, i + 2, LAMBDA x : x = "quote")
        Matches(i) == /\ text[i] = key
                      /\ text[i + 1] = "quote"
                      /\ Close(i) # 0
                      /\ \A j \in (i + 2)..(Close(i) - 1) : text[j] # "nl"
        S == {i \in 1..(Len(text) - 1) : Matches(i)}
        At(i) == [found |-> TRUE, val |-> SubSeq(text, i + 2, Close(i) - 1)]
    IN  IF S = {} THEN [found |-> TRUE, val |-> <<"Unknown">>]
        ELSE At(CHOOSE i \in S : \A j \in S : i <= j)

\* NAME_PAT, DESC_PAT, ROM_NAME_PAT .search(text): key, a quote, the
\* shortest text up to the next quote; "." does not match a line end
CmpQuoted(text, key) ==
    LET Close(i) == FirstAt(text, i + 2, LAMBDA x : x = "quote")
        Matches(i) == /\ text[i] = key
                      /\ text[i + 1] = "quote"
                      /\ Close(i) # 0
                      /\ \A j \in (i + 2)..(Close(i) - 1) : text[j] # "nl"
        S == {i \in 1..(Len(text) - 1) : Matches(i)}
        At(i) == [found |-> TRUE, val |-> SubSeq(text, i + 2, Close(i) - 1)]
    IN  IF S = {} THEN [found |-> FALSE, val |-> <<>>]
        ELSE At(CHOOSE i \in S : \A j \in S : i <= j)

\* int(SIZE_PAT.search(text).group(1)) if there is a match, else 0
CmpSize(text) ==
    LET S == {i \in 1..(Len(text) - 1) : text[i] = "size" /\ IsDigit(text[i + 1])}
        At(i) == DecValue(DigitPrefix(SubSeq(text, i + 1, Len(text))))
    IN  IF S = {} THEN 0 ELSE At(CHOOSE i \in S : \A j \in S : i <= j)

\* CRC_PAT.search(text).group(1) if there is a match, else ""
CmpCrc(text) ==
    LET S == {i \in 1..(Len(text) - 1) : text[i] = "crc" /\ text[i + 1] \in {"c1", "c2", "c3"}}
    IN  IF S = {} THEN "" ELSE text[(CHOOSE i \in S : \A j \in S : i <= j) + 1]

\* the record of a named rom clause with text rom, in game g described by d
CmpRow(g, d, n, rom) ==
    [game |-> g, desc |-> d, rom |-> n, size |-> CmpSize(rom), crc |-> CmpCrc(rom)]

\* a counter that stops at the first closing parenthesis
BracketEndFirstClose(c, j, bal) == FirstAt(c, j, LAMBDA x : x = ")")

\* InMemoryParser._parse_cmp: the bracket counter started after the opener
\* at index j - 1 with balance bal; the index where the balance is 0, or 0
RECURSIVE BracketEnd(_, _, _)
BracketEnd(c, j, bal) ==
    IF j > Len(c) THEN 0
    ELSE LET Go(b) == IF b = 0 THEN j ELSE BracketEnd(c, j + 1, b)
         IN  Go(bal + (IF c[j] \in {"game (", "Game (", "rom (", "clrmamepro (", "("} THEN 1
                       ELSE IF c[j] = ")" THEN -1 ELSE 0))

\* GAME_PATTERN.finditer and the blocks the bracket counter closes
GameBlocks(c) ==
    LET starts == SelectSeq([i \in 1..Len(c) |-> i],
                            LAMBDA i : c[i] \in {"game (", "Game ("} /\ BracketEnd(c, i + 1, 1) # 0)
    IN  [k \in 1..Len(starts) |-> SubSeq(c, starts[k] + 1, BracketEnd(c, starts[k] + 1, 1) - 1)]

\* ROM_PAT.finditer(block) from index p on: "rom (", then the shortest text
\* up to the next ")"
RECURSIVE RomClauses(_, _)
RomClauses(block, p) ==
    LET Go(i) ==
            IF i = 0 \/ FirstAt(block, i + 1, LAMBDA x : x = ")") = 0 THEN <<>>
            ELSE <<SubSeq(block, i + 1, FirstAt(block, i + 1, LAMBDA x : x = ")") - 1)>>
                 \o RomClauses(block, FirstAt(block, i + 1, LAMBDA x : x = ")") + 1)
    IN  Go(FirstAt(block, p, LAMBDA x : x = "rom ("))

RECURSIVE Flatten(_)
Flatten(ss) == IF ss = <<>> THEN <<>> ELSE Head(ss) \o Flatten(Tail(ss))

InMemoryParseCmp(c) ==
    LET OrElse(m, v) == IF m.found THEN m.val ELSE v
        RowsOf(g, d, clauses) ==
            Flatten([k \in 1..Len(clauses) |->
                        IF CmpQuoted(clauses[k], "name").found
                        THEN <<CmpRow(g, d, CmpQuoted(clauses[k], "name").val, clauses[k])>>
                        ELSE <<>>])
        BlockRows(b) == RowsOf(OrElse(CmpQuoted(b, "name"), <<"Unknown">>),
                               OrElse(CmpQuoted(b, "description"), <<>>),
                               RomClauses(b, 1))
        blocks == GameBlocks(c)
    IN  Stream(Flatten([k \in 1..Len(blocks) |-> BlockRows(blocks[k])]), NoExc)

\* "for line in f: line = line.strip()"
RECURSIVE Lines(_)
Lines(c) ==
    LET Go(k) == IF k = 0 THEN <<c>>
                 ELSE <<SubSeq(c, 1, k - 1)>> \o Lines(SubSeq(c, k + 1, Len(c)))
    IN  IF c = <<>> THEN <<>> ELSE Go(FirstAt(c, 1, LAMBDA x : x = "nl"))

\* TurboParser._parse_cmp from line i on, with in_game_block and
\* current_game_info as in, g (name) and d (description)
RECURSIVE TurboCmpFrom(_, _, _, _, _)
TurboCmpFrom(ls, i, in, g, d) ==
    LET Field(line) ==     \* line.split('"')[1]
            SubSeq(line, 3, IF FirstAt(line, 3, LAMBDA x : x = "quote") = 0 THEN Len(line)
                            ELSE FirstAt(line, 3, LAMBDA x : x = "quote") - 1)
        Inside(line, g1, d1) ==
            (IF line[1] = "rom (" /\ CmpQuoted(line, "name").found
             THEN <<CmpRow(g1, d1, CmpQuoted(line, "name").val, line)>>
             ELSE <<>>) \o TurboCmpFrom(ls, i + 1, TRUE, g1, d1)
    IN  IF i > Len(ls) THEN <<>>
        ELSE IF ls[i] = <<>> THEN TurboCmpFrom(ls, i + 1, in, g, d)
        ELSE IF ls[i][1] \in {"game (", "resource ("}
        THEN TurboCmpFrom(ls, i + 1, TRUE, <<"Unknown">>, <<>>)
        ELSE IF ls[i] = <<")">> THEN TurboCmpFrom(ls, i + 1, FALSE, g, d)
        ELSE IF ~in THEN TurboCmpFrom(ls, i + 1, in, g, d)
        ELSE Inside(ls[i],
                    IF StartsWith(ls[i], <<"name", "quote">>) THEN Field(ls[i]) ELSE g,
                    IF ~StartsWith(ls[i], <<"name", "quote">>)
                       /\ StartsWith(ls[i], <<"description", "quote">>) THEN Field(ls[i]) ELSE d)

TurboParseCmp(c) == Stream(TurboCmpFrom(Lines(c), 1, FALSE, <<>>, <<>>), NoExc)

(***************************************************************************)
(* The legacy-text extractors called on their own, on files of up to       *)
(* MaxGames game blocks of up to MaxRoms rom clauses each, laid out as     *)
(* TOSEC lays them out: a header block, then each block with its name      *)
(* line, its description line and one line per rom clause.                 *)
(***************************************************************************)
CmpRoms ==
    { [named |-> TRUE, name |-> <<"r1">>, size |-> <<"1", "0", "0">>, crc |-> "c1"],
      [named |-> TRUE, name |-> <<"r2", "(", "v", ")">>, size |-> <<"7">>, crc |-> "c2"],
      [named |-> FALSE, name |-> <<>>, size |-> <<"5">>, crc |-> "c3"] }
CmpGames ==
    { [name |-> n.name, desc |-> n.desc, roms |-> rs] :
        n \in { [name |-> <<"A">>, desc |-> <<"dA">>],
                [name |-> <<"Test", "Game (", "1986", ")">>, desc |-> <<"dT", "(", "x", ")">>] },
        rs \in Strings(CmpRoms, MaxRoms) }
CmpFiles == Strings(CmpGames, MaxGames)

\* the text of a file
RenderCmp(games) ==
    LET RenderRom(r) ==
            <<"rom (">> \o (IF r.named THEN <<"name", "quote">> \o r.name \o <<"quote">> ELSE <<>>)
            \o <<"size">> \o r.size \o <<"crc", r.crc, ")", "nl">>
        RenderGame(g) ==
            <<"game (", "nl", "name", "quote">> \o g.name \o <<"quote", "nl">>
            \o <<"description", "quote">> \o g.desc \o <<"quote", "nl">>
            \o Flatten([k \in 1..Len(g.roms) |-> RenderRom(g.roms[k])]) \o <<")", "nl", "nl">>
    IN  <<"clrmamepro (", "nl", "name", "quote", "hdr", "quote", "nl",
          "description", "quote", "hd", "quote", "nl", ")", "nl", "nl">>
        \o Flatten([k \in 1..Len(games) |-> RenderGame(games[k])])

InitCmp ==
    \E fn \in {"InMemoryParser._parse_cmp", "TurboParser._parse_cmp"}, f \in CmpFiles :
        InitAll({}, "none", NoDir, Call(fn, f))
InMemoryParseCmpCall ==
    Return("InMemoryParser._parse_cmp", InMemoryParseCmp(RenderCmp(probe.arg)))
TurboParseCmpCall ==
    Return("TurboParser._parse_cmp", TurboParseCmp(RenderCmp(probe.arg)))
SpecCmp == InitCmp /\ [][InMemoryParseCmpCall \/ TurboParseCmpCall]_vars

(***************************************************************************)
(* The block scanner of InMemoryParser._parse_cmp on its own, on every     *)
(* text of up to MaxScanLen lexemes over a block opener, the two           *)
(* parentheses and a word.                                                 *)
(***************************************************************************)
MaxScanLen == 5        \* lexemes of a scanned text

\* the values that balance takes in the while loop started after an opener,
\* at index j with balance bal: one per character read
RECURSIVE BracketTrace(_, _, _)
BracketTrace(c, j, bal) ==
    IF ~(bal > 0 /\ j <= Len(c)) THEN <<>>
    ELSE LET Go(b) == <<b>> \o BracketTrace(c, j + 1, b)
         IN  Go(bal + (IF c[j] \in {"game (", "Game (", "rom (", "clrmamepro (", "("} THEN 1
                       ELSE IF c[j] = ")" THEN -1 ELSE 0))

\* the matches of GAME_PATTERN.finditer, in the order of the text
Openers(c) == SelectSeq([i \in 1..Len(c) |-> i], LAMBDA i : c[i] \in {"game (", "Game ("})

\* the scan of a text: the blocks it collects and, for each opener, the
\* balances of its loop
ScanGameBlocks(c) ==
    [blocks |-> GameBlocks(c),
     depths |-> [k \in 1..Len(Openers(c)) |-> BracketTrace(c, Openers(c)[k] + 1, 1)]]

ScanTexts == Strings({"game (", "(", ")", "x"}, MaxScanLen)
InitScan == \E c \in ScanTexts : InitAll({}, "none", NoDir, Call("game_blocks", c))
ScanGameBlocksCall == Return("game_blocks", ScanGameBlocks(probe.arg))
SpecScan == InitScan /\ [][ScanGameBlocksCall]_vars

(***************************************************************************)
(* The staging writer called on its own, on every file of the catalog     *)
(* with every chunk size up to MaxChunkSize, with and without a fault.     *)
(***************************************************************************)
MaxChunkSize == 4      \* chunk_size of a staging call

InitChunks ==
    \E i \in DOMAIN Catalog, c \in 1..MaxChunkSize, e \in FatalClass \cup {NoExc} :
        InitAll({}, "none", NoDir,
                Call("parse_and_save_chunks", [file |-> i, chunk_size |-> c, fault |-> e]))
ParseAndSaveChunksCall ==
    Return("parse_and_save_chunks",
           ParseAndSaveChunks(File(probe.arg.file), probe.arg.chunk_size, probe.arg.fault))
SpecChunks == InitChunks /\ [][ParseAndSaveChunksCall]_vars

(***************************************************************************)
(* parser.py: the title and year of a game name, the platform, category    *)
(* and system of a file path.  A game name is the sequence of its          *)
(* characters; a file name is the sequence of its lexemes: " ", "-", ".",  *)
(* "(TOSEC" and words of other characters.                                 *)
(***************************************************************************)
MaxNameLen == 6        \* characters of a game name, lexemes of a file name

\* a derivation that reads the year from the last group of four digits
ParseGameInfoLastYear(name) ==
    LET c == name.chars
        Parens == {i \in 1..Len(c) : c[i] = "("}
        Years == {i \in 1..(Len(c) - 5) :
                    /\ c[i] = "(" /\ c[i + 5] = ")"
                    /\ \A m \in (i + 1)..(i + 4) : IsDigit(c[m])}
        Cut == IF Parens = {} THEN Len(c)
               ELSE (CHOOSE i \in Parens : \A j \in Parens : i <= j) - 1
        Last == CHOOSE i \in Years : \A j \in Years : i >= j
    IN  IF ~name.present \/ c = <<>>
        THEN [title |-> <<"U", "n", "k", "n", "o", "w", "n">>, year |-> -1]
        ELSE [title |-> Strip(SubSeq(c, 1, Cut)),
              year |-> IF Years = {} THEN -1 ELSE DecValue(SubSeq(c, Last + 1, Last + 4))]

\* parse_game_info; the year -1 stands for None
ParseGameInfo(name) ==
    LET c == name.chars
        \* (\s*\(|$) matches right after the first i characters
        Ends(i) == \/ i = Len(c)
                   \/ \E j \in (i + 1)..Len(c) :
                        c[j] = "(" /\ \A m \in (i + 1)..(j - 1) : c[m] = " "
        \* \((\d{4})\) matches at index i
        YearAt(i) == /\ i + 5 <= Len(c)
                     /\ c[i] = "(" /\ c[i + 5] = ")"
                     /\ \A m \in (i + 1)..(i + 4) : IsDigit(c[m])
        Title(i) == Strip(SubSeq(c, 1, i))
        Year(S) == IF S = {} THEN -1
                   ELSE DecValue(SubSeq(c, (CHOOSE i \in S : \A j \in S : i <= j) + 1,
                                           (CHOOSE i \in S : \A j \in S : i <= j) + 4))
    IN  IF ~name.present \/ c = <<>>
        THEN [title |-> <<"U", "n", "k", "n", "o", "w", "n">>, year |-> -1]
        ELSE [title |-> Title(CHOOSE i \in 0..Len(c) : Ends(i) /\ \A j \in 0..(i - 1) : ~Ends(j)),
              year |-> Year({i \in 1..Len(c) : YearAt(i)})]

\* a derivation that splits the name at its last " - "
GetCommonInfoLastSeparator(path) ==
    LET b == path.base
        Dots == {i \in 1..Len(b) : b[i] = "."}
        Tags(s) == {i \in 1..Len(s) : s[i] = "(TOSEC"}
        Seps(s) == {i \in 1..(Len(s) - 2) : s[i] = " " /\ s[i + 1] = "-" /\ s[i + 2] = " "}
        Min(S) == CHOOSE i \in S : \A j \in S : i <= j
        Max(S) == CHOOSE i \in S : \A j \in S : i >= j
        NoExt == IF Dots = {} THEN b ELSE SubSeq(b, 1, Max(Dots) - 1)
        Untagged(s) == IF Tags(s) = {} THEN s ELSE Strip(SubSeq(s, 1, Min(Tags(s)) - 1))
        Parts(s) == [dat_filename |-> b,
                     platform |-> Strip(IF Seps(s) = {} THEN s ELSE SubSeq(s, 1, Max(Seps(s)) - 1)),
                     category |-> IF Seps(s) = {} THEN <<"Standard">>
                                  ELSE Strip(SubSeq(s, Max(Seps(s)) + 3, Len(s))),
                     system_name |-> IF path.dirs = <<>> THEN "" ELSE path.dirs[Len(path.dirs)]]
    IN  Parts(Untagged(NoExt))

\* _get_common_info on the path with directories dirs and file name base
GetCommonInfo(path) ==
    LET b == path.base
        Dots == {i \in 1..Len(b) : b[i] = "."}
        Tags(s) == {i \in 1..Len(s) : s[i] = "(TOSEC"}
        Seps(s) == {i \in 1..(Len(s) - 2) : s[i] = " " /\ s[i + 1] = "-" /\ s[i + 2] = " "}
        Min(S) == CHOOSE i \in S : \A j \in S : i <= j
        Max(S) == CHOOSE i \in S : \A j \in S : i >= j
        \* dat_filename.rsplit('.', 1)[0]
        NoExt == IF Dots = {} THEN b ELSE SubSeq(b, 1, Max(Dots) - 1)
        \* clean_name.split("(TOSEC")[0].strip()
        Untagged(s) == IF Tags(s) = {} THEN s ELSE Strip(SubSeq(s, 1, Min(Tags(s)) - 1))
        \* clean_name.split(' - ', 1)
        Parts(s) == [dat_filename |-> b,
                     platform |-> Strip(IF Seps(s) = {} THEN s ELSE SubSeq(s, 1, Min(Seps(s)) - 1)),
                     category |-> IF Seps(s) = {} THEN <<"Standard">>
                                  ELSE Strip(SubSeq(s, Min(Seps(s)) + 3, Len(s))),
                     system_name |-> IF path.dirs = <<>> THEN "" ELSE path.dirs[Len(path.dirs)]]
    IN  Parts(Untagged(NoExt))

(***************************************************************************)
(* The two derivations called on their own: on every game name of up to    *)
(* MaxNameLen characters, on every file name whose stem has up to          *)
(* MaxNameLen lexemes, and on a few longer ones.                           *)
(***************************************************************************)
GameNames ==
    {NoTok} \cup
    {Tok(c) : c \in Strings({"A", " ", "(", ")", "1", "9"}, MaxNameLen)
                    \cup { <<"A", " ", "(", "1", "9", "9", "1", ")", "(", "9", "1", "1", "9", ")">>,
                           <<"A", "(", "A", ")", "(", "1", "9", "9", "9", "1", ")", "(", "1", "9", "1", "9", ")">>,
                           <<"(", "1", "9", "9", "9", ")", " ", "A">> }}
\* the scan lists files whose names end in ".dat", each inside a directory
FilePaths ==
    { [dirs |-> d, base |-> stem \o <<".", "dat">>] :
        d \in {<<"tosec">>, <<"tosec", "Amiga">>},
        stem \in Strings({"A", " ", "-", ".", "(TOSEC"}, MaxNameLen)
              \cup { <<"Commodore Amiga", " ", "-", " ", "Games", " ", "-", " ", "[ADF]", " ",
                       "(TOSEC", "-v2020)">>,
                     <<"A", " ", "-", " ", "B", " ", "(TOSEC", "-v1", ".", "2)">>,
                     <<"A", " ", "(TOSEC", ")", " ", "-", " ", "B">> } }

InitInfo ==
    \/ \E n \in GameNames : InitAll({}, "none", NoDir, Call("parse_game_info", n))
    \/ \E p \in FilePaths : InitAll({}, "none", NoDir, Call("_get_common_info", p))
ParseGameInfoCall == Return("parse_game_info", ParseGameInfo(probe.arg))
GetCommonInfoCall == Return("_get_common_info", GetCommonInfo(probe.arg))
SpecInfo == InitInfo /\ [][ParseGameInfoCall \/ GetCommonInfoCall]_vars

(***************************************************************************)
(* parser.py: _detect_file_format on the content of a file.  A file is a   *)
(* sequence of pieces: a marker in some letter case, one other character,  *)
(* a run of other characters, a line end of two bytes that text mode reads *)
(* as one character, or a byte that is not UTF-8 and that errors='ignore'  *)
(* drops.                                                                  *)
(***************************************************************************)
HeadSize == 1024       \* f.read(1024)
MaxPieces == 3         \* pieces of a file

\* the characters a piece decodes to
PieceText(p) ==
    CASE p = "<?xml" -> <<"<", "?", "x", "m", "l">>
      [] p = "<?XML" -> <<"<", "?", "X", "M", "L">>
      [] p = "<datafile" -> <<"<", "d", "a", "t", "a", "f", "i", "l", "e">>
      [] p = "<mame" -> <<"<", "m", "a", "m", "e">>
      [] p = "clrmamepro" -> <<"c", "l", "r", "m", "a", "m", "e", "p", "r", "o">>
      [] p = "rom (" -> <<"r", "o", "m", " ", "(">>
      [] p = "ROM (" -> <<"R", "O", "M", " ", "(">>
      [] p = "game (" -> <<"g", "a", "m", "e", " ", "(">>
      [] p = "y" -> <<"y">>
      [] p = "run" -> [i \in 1..(HeadSize - 6) |-> "y"]
      [] p = "crlf" -> <<"nl">>
      [] p = "invalid" -> <<>>
\* the tests of _detect_file_format on the lower-cased, stripped head
Classify(head) ==
    IF \/ Contains(head, PieceText("<?xml"))
       \/ Contains(head, PieceText("<datafile"))
       \/ Contains(head, PieceText("<mame"))
    THEN "xml"
    ELSE IF \/ Contains(head, PieceText("clrmamepro"))
            \/ Contains(head, PieceText("rom ("))
            \/ Contains(head, PieceText("game ("))
         THEN "cmp"
         ELSE "unknown"

\* _detect_file_format; a file that cannot be opened or read raises inside
\* the try block
DetectFileFormatOf(file) ==
    LET Read(text) == SubSeq(text, 1, IF Len(text) < HeadSize THEN Len(text) ELSE HeadSize)
    IN  IF ~file.readable THEN "unknown"
        ELSE Classify(Strip(LowerStr(Read(Flatten([i \in 1..Len(file.pieces) |->
                                                      PieceText(file.pieces[i])])))))

(***************************************************************************)
(* The detection called on its own: on every file of up to MaxPieces       *)
(* pieces and on a file that cannot be read.                               *)
(***************************************************************************)
DetectFiles ==
    { [readable |-> r, pieces |-> ps] :
        r \in BOOLEAN,
        ps \in Strings({"<?xml", "<?XML", "<datafile", "<mame", "clrmamepro", "rom (", "ROM (",
                        "game (", "y", "run", "crlf", "invalid"}, MaxPieces) }
InitDetect == \E f \in DetectFiles : InitAll({}, "none", NoDir, Call("_detect_file_format", f))
DetectFileFormatCall == Return("_detect_file_format", DetectFileFormatOf(probe.arg))
SpecDetect == InitDetect /\ [][DetectFileFormatCall]_vars

(***************************************************************************)
(* Properties.                                                             *)
(***************************************************************************)
SessionActive == pc \in {"serial", "pool", "pool_fatal", "direct"}

\* the records the In-Memory parser extracts from catalog file i, as the
\* destination stores them
StoredRecords(i) ==
    LET rows == InMemoryParse(File(i))
    IN  BagOfSeq([j \in 1..Len(rows) |-> CastRow(rows[j])])

\* C1: in every state of an import session, a file name is in the
\* processed-file set only if all the records extracted from a file of that
\* name are in the destination
C1_MarkedOnlyIfCommitted ==
    SessionActive =>
    \A n \in processed :
        \E i \in 1..Len(Catalog) :
            /\ Basename(File(i)) = n
            /\ FirstBadRow(InMemoryParse(File(i))) = 0
            /\ StoredRecords(i) \sqsubseteq roms

\* the files a resumed scan has to hand over: the discovered files whose
\* base name is not in the processed-file set
Unprocessed(all, done) == {i \in Range(all) : Basename(File(i)) \notin done}

\* C2: when a scan resumes, the list it computes holds exactly the
\* discovered files whose base name is not in the processed-file set, in
\* discovery order, and that list is what the session is given
C2_ResumeListExact ==
    /\ (pc = "scan_dispatch" /\ scan.resume_mode) =>
          /\ Range(scan.list) = Unprocessed(scan.all, processed)
          /\ Len(scan.list) = Cardinality(Unprocessed(scan.all, processed))
          /\ \A j, k \in DOMAIN scan.list : j < k => scan.list[j] < scan.list[k]
    /\ (SessionActive /\ scan.resume_mode) => files = scan.list

\* C2: a resumed scan has dispatched a shorter list: a file of the directory
\* was skipped, one whose base name another directory's file had marked
C2_Witness ==
    /\ SessionActive
    /\ scan.resume_mode
    /\ files # <<>>
    /\ \E i \in Range(scan.all) \ Range(files) : Basename(File(i)) \in processed
    /\ 6 \in Range(scan.all) \ Range(files)
    /\ 1 \notin Range(scan.all)

\* a session has ended, by returning or by raising
Ended == pc = "idle" /\ outcome.kind \in {"returned", "raised"}

\* the session was constructed as documented, its progress sink returns and
\* the environment injected no fault
QuietSession == faults = 0 /\ callback = "none" /\ cfg.db = "db" /\ cfg.args = "namespace"

\* C3: a session over well-formed files returned without error; a later scan
\* of a directory that holds them (no two files of one base name), with the
\* resume flag and no version mismatch, lists exactly the files that are new
C3_ResumeDispatchesOnlyNew ==
    ( /\ pc = "scan_dispatch"
      /\ scan.resume
      /\ \A i, j \in Range(scan.all) : Basename(File(i)) = Basename(File(j)) => i = j
      /\ Len(hist) = 1
      /\ hist[1].entry = "library"
      /\ hist[1].ended = "returned"
      /\ hist[1].errors = 0
      /\ hist[1].files # <<>>
      /\ Range(hist[1].files) \subseteq CleanFiles )
    => Range(scan.list) = Range(scan.all) \ Range(hist[1].files)

\* the document of catalog file i is not well-formed
Malformed(i) == File(i).badAt > 0

\* C4: a session whose files are well-formed or malformed XML returns, its
\* error tally is the number of malformed files, and none of them is marked
C4_ParseFailureTallied ==
    ( /\ Ended
      /\ QuietSession
      /\ \A i \in Range(files) : i \in CleanFiles \/ Malformed(i) )
    => /\ outcome.kind = "returned"
       /\ outcome.errors = Cardinality({i \in Range(files) : Malformed(i)})
       /\ \A i \in Range(files) : Malformed(i) => Basename(File(i)) \notin processed

\* C5: a library session ends by raising exactly when a fatal-class failure
\* (the only failures the environment injects) was raised in it
C5_FatalEscapesOthersStay ==
    (Ended /\ Len(hist) = 1 /\ hist[1].entry = "library")
    => (faults > 0 <=> outcome.kind = "raised")

\* C6: once the coordinator of a pool has detected a fatal condition, no
\* pending task starts, and the session ends by raising the fatal error
C6_NoStartAfterFatal ==
    [][ pc = "pool_fatal" =>
          /\ \A i \in DOMAIN fut : fut[i].st = "pending" => fut'[i].st = "pending"
          /\ pc' = "idle" => (outcome'.kind = "raised" /\ outcome'.exc = CriticalError) ]_vars

\* the files whose results the coordinator took over before the session ended
MergedFiles ==
    IF fut = <<>> THEN {files[j] : j \in 1..(idx - 1)}
    ELSE {files[i] : i \in {j \in DOMAIN fut : fut[j].st = "handled"}}

\* the records the session's strategy extracts from catalog file i
RecordsOf(i) ==
    IF mode = "legacy" THEN StoredRecords(i) ELSE BagOfSeq(TurboParse(File(i)).rows)

RECURSIVE SumRecords(_)
SumRecords(S) ==
    IF S = {} THEN 0
    ELSE LET i == CHOOSE i \in S : TRUE
         IN  BagCardinality(RecordsOf(i)) + SumRecords(S \ {i})

\* C7: when a session that tallied no error raises the fatal error, the
\* records of the files merged before are in the destination and in the total
C7_MergedResultsRemain ==
    ( /\ Ended
      /\ outcome.kind = "raised"
      /\ outcome.exc = CriticalError
      /\ outcome.errors = 0
      /\ hist[1].entry = "library" )
    => /\ \A i \in MergedFiles : RecordsOf(i) \sqsubseteq roms
       /\ total_roms >= SumRecords(MergedFiles)

RECURSIVE SumSizes(_)
SumSizes(S) ==
    IF S = {} THEN 0
    ELSE LET i == CHOOSE i \in S : TRUE IN GetSize(File(i)) + SumSizes(S \ {i})

\* C8: a session over files of unknown format, in an environment that injects
\* no fault, returns with no record, no error, no file marked, and the
\* progress advanced by the files' sizes
C8_UnknownFormatSkipped ==
    ( /\ Ended
      /\ faults = 0
      /\ files # <<>>
      /\ \A i \in Range(files) : DetectFileFormat(File(i)) = "unknown" )
    => /\ outcome.kind = "returned"
       /\ total_roms = 0
       /\ error_count = 0
       /\ pbar = SumSizes(Range(files))
       /\ \A i \in Range(files) :
            /\ Basename(File(i)) \notin processed
            /\ \A r \in BagToSet(roms) : r.file # Basename(File(i))

\* the multiset of (rom_name, size, crc) of a bag of rows
Tuples(B) ==
    LET T == {<<r.rom, r.size, r.crc>> : r \in BagToSet(B)}
        RECURSIVE Copies(_, _)
        Copies(t, R) ==
            IF R = {} THEN 0
            ELSE LET r == CHOOSE r \in R : TRUE
                 IN  (IF <<r.rom, r.size, r.crc>> = t THEN B[r] ELSE 0) + Copies(t, R \ {r})
    IN  [t \in T |-> Copies(t, BagToSet(B))]

\* C9: a well-formed XML file imported alone into an empty destination gives
\* the same record total and the same multiset of (rom_name, size, crc)
\* whatever the strategy: the one the streaming parser's rows give
C9_StrategiesAgree ==
    ( /\ Ended
      /\ runs = 1
      /\ cfg.args = "namespace"
      /\ Len(files) = 1
      /\ files[1] \in {1, 2, 6} )
    => /\ Tuples(roms) = Tuples(BagOfSeq(TurboParse(File(files[1])).rows))
       /\ total_roms = Len(TurboParse(File(files[1])).rows)

\* C10: a scan that found a version tag different from the input's hands
\* files to a session only with the destination wiped, and a declined wipe
\* leaves rows, processed-file set and version tag as they were
C10_MismatchNeedsWipe ==
    [][ /\ ( /\ pc = "scan_dispatch"
             /\ SessionActive'
             /\ scan.dbv \notin {"none", scan.cur} )
           => (roms = EmptyBag /\ processed = {})
        /\ ( /\ hist' # hist
             /\ hist'[Len(hist')].ended = "declined" )
           => UNCHANGED <<roms, processed, version>> ]_vars

\* C11: a scan that starts fresh hands the session the full discovered list,
\* and at that moment the destination holds no row, the processed-file set
\* is empty and the version tag is the input's version
C11_FreshStartOrder ==
    [][ ( /\ pc = "scan_dispatch"
          /\ ~scan.resume_mode
          /\ SessionActive' )
        => /\ scan.wipe # "none"
           /\ roms = EmptyBag
           /\ processed = {}
           /\ version = scan.cur
           /\ files' = scan.all ]_vars

\* a library session whose progress sink returns, in an environment that
\* injects no fault
QuietLibrary == faults = 0 /\ callback = "none" /\ cfg.db = "db"

\* C12: between two merges of the In-Memory strategy of such a session the
\* buffer holds fewer records than the batch size, and nothing is left in it
\* when the session has returned
C12_BufferBelowBatchSize ==
    /\ (pc \in {"serial", "pool"} /\ mode = "legacy" /\ QuietLibrary)
         => Len(buffer) < cfg.batch_size
    /\ (Ended /\ mode = "legacy" /\ QuietLibrary /\ outcome.kind = "returned")
         => buffer = <<>>

\* C13: in a Staged run the destination changes in one step only, the bulk
\* load, taken when every task's result has been handled and with which the
\* strategy ends; no step of a worker changes it
C13_BulkLoadAfterStaging ==
    [][ (mode = "staged" /\ pc \in {"pool", "pool_fatal", "cleanup"})
        => /\ processed' = processed
           /\ roms' # roms => /\ pc = "pool"
                              /\ \A i \in DOMAIN fut : fut[i].st = "handled"
                              /\ pc' = "cleanup" ]_vars

\* C13: the bulk load of a Staged run over two files has put the streaming
\* parser's rows (r5 is a machine element's) into the destination
C13_Witness ==
    /\ pc = "cleanup"
    /\ mode = "staged"
    /\ outcome.kind = "returning"
    /\ Len(files) = 2
    /\ \E r \in BagToSet(roms) : r.rom = "r5"

\* C14: before any task of a Staged run has finished the staging directory
\* holds no chunk file, and once ingest has returned or raised the staging
\* directory does not exist
C14_StagingDirCleared ==
    /\ ( /\ pc = "pool"
         /\ mode = "staged"
         /\ \A i \in DOMAIN fut : fut[i].st \in {"pending", "running"} )
       => tempdir.chunks = <<>>
    /\ (Ended /\ mode = "staged" /\ files # <<>>) => ~tempdir.exists

\* the records the streaming parser yields for the file the Direct strategy
\* is at
DirectRows == TurboParse(File(files[idx])).rows

\* C15: every batch the Direct strategy hands to the destination is the next
\* 1 to c records of the file, fewer than c only when they are its last, the
\* batch counter never advances on an empty batch, and a file is left
\* without an error only when all its records have been handed over
C15_DirectBatches ==
    [][ (pc = "direct" /\ idx <= Len(files))
        => /\ roms' # roms =>
                \E n \in 1..DirectChunkSize :
                    /\ sent * DirectChunkSize + n <= Len(DirectRows)
                    /\ n < DirectChunkSize => sent * DirectChunkSize + n = Len(DirectRows)
                    /\ roms' = roms (+) BagOfSeq(SubSeq(DirectRows,
                                                        sent * DirectChunkSize + 1,
                                                        sent * DirectChunkSize + n))
                    /\ total_roms' = total_roms + n
                    /\ sent' = sent + 1
           /\ sent' = sent + 1 => roms' # roms
           /\ (idx' = idx + 1 /\ error_count' = error_count)
                => sent * DirectChunkSize >= Len(DirectRows) ]_vars

\* C15: the Direct strategy has handed over Amiga/a.dat's three records, a
\* full batch and a last partial one
C15_Witness ==
    /\ pc = "direct"
    /\ files = <<1>>
    /\ idx = 2
    /\ total_roms = 3
    /\ error_count = 0

\* C16: a session of a pooled strategy whose effective worker count is below
\* 2 runs its files serially and has no pool
C16_SerialBelowTwoWorkers ==
    ( /\ pc \in {"serial", "pool", "pool_fatal"}
      /\ mode \in {"legacy", "staged"}
      /\ cfg.workers < 2 )
    => (pc = "serial" /\ fut = <<>>)

Min(a, b) == IF a <= b THEN a ELSE b

\* C17: the effective worker count of a session never exceeds the CPU count
\* and, for a caller who asked for at least one worker (0 asks for
\* auto-detection), is the smaller of the count asked for and the CPU count
C17_EffectiveWorkersIsMin ==
    (pc \in {"serial", "pool", "pool_fatal", "direct", "cleanup"})
    => /\ cfg.workers <= CpuCount
       /\ cfg.requested >= 1 => cfg.workers = Min(cfg.requested, CpuCount)

\* the session fields of the coordinator
CoordinatorState == <<buffer, total_roms, error_count, processed>>

\* C18: while a pool runs, a step in which a task starts or finishes leaves
\* buffer, record total, error tally and processed-file set as they are, and
\* what an In-Memory task returns depends on its file only; those fields
\* change only when the coordinator handles one completed result, or ends
\* the strategy after the last one
C18_OnlyCoordinatorMutates ==
    [][ (pc = "pool" \/ pc = "pool_fatal")
        => /\ \A i \in DOMAIN fut :
                (fut[i].st \in {"pending", "running"} /\ fut'[i] # fut[i])
                => /\ CoordinatorState' = CoordinatorState
                   /\ (mode = "legacy" /\ fut'[i].st = "done" /\ faults' = faults)
                        => fut'[i].data = InMemoryParse(File(files[i]))
           /\ CoordinatorState' # CoordinatorState
                => \/ \E i \in DOMAIN fut :
                        /\ fut[i].st = "done"
                        /\ \A j \in DOMAIN fut \ {i} : fut'[j] = fut[j]
                   \/ /\ \A i \in DOMAIN fut : fut[i].st = "handled"
                      /\ pc' \notin {"pool", "pool_fatal"} ]_vars

\* C18: the coordinator has merged the second file's records while the task
\* of the first file is still running
C18_Witness ==
    /\ pc = "pool"
    /\ mode = "legacy"
    /\ Len(fut) = 2
    /\ fut[1].st = "running"
    /\ fut[2].st = "handled"
    /\ total_roms > 0

\* the session fields before the first merge, on an empty destination
Blank == [buffer |-> <<>>, total |-> 0, errors |-> 0, roms |-> EmptyBag,
          processed |-> {}, pbar |-> 0]

\* the session fields after the In-Memory coordinator has merged the parse
\* results of the files of fs in list order and flushed the buffer
RECURSIVE MergeInListOrder(_, _, _, _)
MergeInListOrder(s, c, fs, keep) ==
    IF fs = <<>> THEN FlushBuffer(s, c, NoExc, "rows", keep).s
    ELSE MergeInListOrder(
             Guarded(ProcessResult(s, c, InMemoryParse(File(Head(fs))), File(Head(fs)),
                                   "none", NoExc, "rows", keep)).s,
             c, Tail(fs), keep)

\* record total, error tally and chunk files after the Staged tasks of the
\* files of fs have run and been handled in list order
RECURSIVE StageInListOrder(_, _)
StageInListOrder(acc, fs) ==
    IF fs = <<>> THEN acc
    ELSE LET Go(r) ==
                 StageInListOrder([total |-> acc.total + (IF r.exc = NoExc THEN r.stats.roms ELSE 0),
                                   errors |-> acc.errors + (IF r.exc = NoExc THEN 0 ELSE 1),
                                   chunks |-> r.chunks @@ acc.chunks],
                                  Tail(fs))
         IN  Go(WorkerStagedTask(File(Head(fs)), StagedChunkSize, NoExc))

StagedInListOrder(fs) ==
    LET Go(acc) == [total |-> acc.total, errors |-> acc.errors,
                    roms |-> IF acc.total = 0 THEN EmptyBag
                             ELSE ChunkRows(acc.chunks, DOMAIN acc.chunks)]
    IN  Go(StageInListOrder([total |-> 0, errors |-> 0, chunks |-> <<>>], fs))

\* C19: a pooled library session on an empty destination, in an environment
\* that injects no fault, ends with the record total, the error tally and the
\* destination rows that handling the results in list order gives, whatever
\* the order in which its tasks completed (the rows of an In-Memory session
\* are compared when the engine refuses none of them: what stays of a
\* refused batch is the engine's choice)
C19_OrderIndependent ==
    ( /\ Ended
      /\ Len(hist) = 1
      /\ hist[1].entry = "library"
      /\ fut # <<>> )
    => IF mode = "legacy"
       THEN /\ total_roms = MergeInListOrder(Blank, cfg, files, FALSE).total
            /\ error_count = MergeInListOrder(Blank, cfg, files, FALSE).errors
            /\ (\A i \in Range(files) : FirstBadRow(InMemoryParse(File(i))) = 0)
                 => roms = MergeInListOrder(Blank, cfg, files, FALSE).roms
       ELSE /\ total_roms = StagedInListOrder(files).total
            /\ error_count = StagedInListOrder(files).errors
            /\ roms = StagedInListOrder(files).roms

\* the chunk indices the staging task of catalog file i writes
ChunkIndices(i) == 0..(NumBatches(TurboParse(File(i)), StagedChunkSize) - 1)

\* C20: in a Staged run two distinct (source file, chunk index) pairs have
\* distinct chunk paths, and no chunk file written in the run is replaced by
\* another content
C20_DistinctChunkPaths ==
    [][ (mode = "staged" /\ (pc = "pool" \/ pc = "pool_fatal"))
        => /\ \A i, j \in Range(files) : \A k \in ChunkIndices(i), l \in ChunkIndices(j) :
                <<i, k>> # <<j, l>> => ChunkPath(File(i), k) # ChunkPath(File(j), l)
           /\ \A q \in DOMAIN tempdir.chunks :
                q \in DOMAIN tempdir'.chunks => tempdir'.chunks[q] = tempdir.chunks[q] ]_vars

\* C21: a scan session runs the strategy its strategy flag names (Direct for
\* the direct flag, Staged for the staged flag, In-Memory otherwise), and the
\* strategy does not change while the session runs
C21_OneStrategyFromFlag ==
    [][ /\ (pc = "scan_dispatch" /\ SessionActive') => mode' = cfg'.flag
        /\ (SessionActive /\ SessionActive') => mode' = mode ]_vars

\* the strategy of a running session never changes
C21_StrategyFixed == [][ (SessionActive /\ SessionActive') => mode' = mode ]_vars

\* a raw size attribute that already reads as the non-negative integer the
\* size normalizer gives for it: plain decimal digits
Canonical(t) == /\ t.present
                /\ t.chars # <<>>
                /\ \A k \in 1..Len(t.chars) : IsDigit(t.chars[k])

\* catalog file i is well-formed XML with a rom whose size token the
\* normalizer refuses
UnparsableSize(i) ==
    /\ File(i).fmt = "xml" /\ File(i).badAt = 0
    /\ \E e \in 1..Len(File(i).elems) : \E r \in 1..Len(File(i).elems[e].roms) :
          ~TryParseSize(File(i).elems[e].roms[r].size).ok

\* C22: every record a parser emits carries a normalized, non-negative size
\* (In-Memory records: in the results and in the buffer; Staged records: in the
\* chunk files), and the parse of a file with an unparsable size token fails
C22_SizesNormalized ==
    /\ (mode = "legacy" /\ SessionActive) =>
          /\ \A j \in DOMAIN buffer : Canonical(buffer[j].size)
          /\ \A i \in DOMAIN fut :
                /\ \A j \in DOMAIN fut[i].data : Canonical(fut[i].data[j].size)
                /\ (fut[i].st = "done" /\ faults = 0 /\ UnparsableSize(files[i]))
                      => fut[i].data = <<>>
    /\ (mode = "staged" /\ SessionActive) =>
          /\ \A q \in DOMAIN tempdir.chunks :
                \A j \in DOMAIN tempdir.chunks[q] : tempdir.chunks[q][j].size \in Nat
          /\ \A i \in DOMAIN fut :
                (fut[i].st = "done" /\ UnparsableSize(files[i])) => fut[i].exc # NoExc

\* the same for the records and results of the Staged strategy alone
C22_StagedSizesNormalized == mode = "staged" => C22_SizesNormalized

\* the normalizer has returned or raised
SizeCalled == probe.fn = "_try_parse_size" /\ probe.done

\* the token, trimmed and lower-cased
Cleaned(t) == LowerStr(Strip(t.chars))
HexPrefixed(s) == StartsWith(s, <<"0", "x">>) \/ StartsWith(s, <<"$">>)
\* what follows the hexadecimal prefix
HexBody(s) == IF StartsWith(s, <<"$">>) THEN Tail(s) ELSE SubSeq(s, 3, Len(s))
\* the multiplier a unit suffix of the token names
SuffixMultiplier(s) ==
    IF EndsWith(s, <<"k">>) \/ EndsWith(s, <<"k", "b">>) THEN 1024
    ELSE IF EndsWith(s, <<"m">>) \/ EndsWith(s, <<"m", "b">>) THEN 1024 * 1024
    ELSE IF EndsWith(s, <<"g">>) \/ EndsWith(s, <<"g", "b">>) THEN 1024 * 1024 * 1024
    ELSE 1

\* the rules up to the choice of the multiplier: empty gives 0; a hexadecimal
\* numeral after 0x or $ gives its value, and a remainder with a character
\* no hexadecimal numeral holds raises; otherwise a token with a digit gives
\* its first run of decimal digits times mult
NormalizedBy(t, out, mult) ==
    IF ~t.present \/ t.chars = <<>> THEN out = SizeOk(0)
    ELSE IF HexPrefixed(Cleaned(t))
    THEN LET body == HexBody(Cleaned(t)) IN
         /\ (body # <<>> /\ \A i \in 1..Len(body) : IsHexDigit(body[i]))
                => out = SizeOk(HexValue(body))
         /\ (body = <<>> \/ \E i \in 1..Len(body) :
                ~IsHexDigit(body[i]) /\ body[i] \notin {" ", "-", "+", "x", "$"})
                => ~out.ok
    ELSE FirstDigitRun(Cleaned(t)) # <<>>
            => out = SizeOk(DecValue(FirstDigitRun(Cleaned(t))) * mult)

\* C23: the rules of the size normalizer in order: empty gives 0, a 0x or $
\* token is read as hexadecimal and raises when malformed, any other token
\* gives its first run of decimal digits times the multiplier of its k/kb,
\* m/mb or g/gb suffix (1 without a suffix)
C23_RulesInOrder ==
    SizeCalled => NormalizedBy(probe.arg, probe.out, SuffixMultiplier(Cleaned(probe.arg)))

\* the six tokens the specification names
C23_NamedTokens ==
    SizeCalled =>
        /\ probe.arg = Tok(<<"1", "0", "2", "4">>) => probe.out = SizeOk(1024)
        /\ probe.arg = Tok(<<"1", "k", "b">>) => probe.out = SizeOk(1024)
        /\ probe.arg = Tok(<<"0", "x", "1", "0">>) => probe.out = SizeOk(16)
        /\ probe.arg = Tok(<<"1", "0", " ", "m", "b">>) => probe.out = SizeOk(10485760)
        /\ probe.arg = Tok(<<>>) => probe.out = SizeOk(0)
        /\ probe.arg = NoTok => probe.out = SizeOk(0)
        /\ probe.arg = Tok(<<"0", "x", "Z", "Z">>) => probe.out = SizeErr(InvalidHexError)

\* the multiplier is always one of the four, and every rule but the choice
\* of the multiplier holds on every token
C23_RulesButSuffix ==
    SizeCalled => \E mult \in {1, 1024, 1024 * 1024, 1024 * 1024 * 1024} :
                      NormalizedBy(probe.arg, probe.out, mult)

\* the token holds no digit: no decimal digit and, when it takes the
\* hexadecimal rule, no hexadecimal digit either
NoDigit(t) ==
    /\ \A k \in 1..Len(t.chars) : ~IsDigit(t.chars[k])
    /\ HexPrefixed(Cleaned(t)) => \A k \in 1..Len(t.chars) : ~IsHexDigit(LowerChar(t.chars[k]))

CmpCalled == probe.fn \in {"InMemoryParser._parse_cmp", "TurboParser._parse_cmp"} /\ probe.done

\* one record per named rom clause of the games, in file order
CmpRecords(games) ==
    Flatten([k \in 1..Len(games) |->
        Flatten([j \in 1..Len(games[k].roms) |->
            IF games[k].roms[j].named
            THEN <<[game |-> games[k].name, desc |-> games[k].desc,
                    rom |-> games[k].roms[j].name,
                    size |-> DecValue(games[k].roms[j].size),
                    crc |-> games[k].roms[j].crc]>>
            ELSE <<>>])])
AllNamed(games) ==
    \A k \in 1..Len(games) : \A j \in 1..Len(games[k].roms) : games[k].roms[j].named
PlainRomNames(games) ==
    \A k \in 1..Len(games) : \A j \in 1..Len(games[k].roms) :
        \A i \in 1..Len(games[k].roms[j].name) : games[k].roms[j].name[i] \notin {"(", ")"}

\* C25: on a file of well-formed game blocks whose rom clauses are all
\* named, legacy-text extraction yields one record per rom clause, in file
\* order, with its block's name and description and its own name, size and
\* crc, parentheses in the quoted texts notwithstanding
C25_OneRecordPerRomClause ==
    (CmpCalled /\ AllNamed(probe.arg)) => probe.out = Stream(CmpRecords(probe.arg), NoExc)

\* the same, for the streaming extractor on every file and for the
\* In-Memory extractor on the files whose rom names hold no parenthesis
C25_ButParenthesisedRomNames ==
    (CmpCalled /\ AllNamed(probe.arg)
       /\ (probe.fn = "TurboParser._parse_cmp" \/ PlainRomNames(probe.arg)))
        => probe.out = Stream(CmpRecords(probe.arg), NoExc)

\* the games without their nameless rom clauses
WithoutNameless(games) ==
    [k \in 1..Len(games) |->
        [games[k] EXCEPT !.roms = SelectSeq(@, LAMBDA r : r.named)]]

RECURSIVE ElementRoms(_, _)
ElementRoms(i, e) ==
    IF e > Len(File(i).elems) THEN <<>>
    ELSE (IF File(i).elems[e].tag \in {"game", "machine"}
          THEN [r \in 1..Len(File(i).elems[e].roms) |-> File(i).elems[e].roms[r].name]
          ELSE <<>>) \o ElementRoms(i, e + 1)
WellFormedXml(i) == File(i).fmt = "xml" /\ File(i).badAt = 0 /\ ~UnparsableSize(i)

\* C27: XML extraction of a well-formed file yields one record per rom
\* element of each game or machine element, in document order (In-Memory:
\* the records a worker returns; Staged: the records a worker counts)
C27_OneRecordPerRomElement ==
    \A i \in DOMAIN fut :
        (fut[i].st = "done" /\ fut[i].exc = NoExc /\ faults = 0 /\ WellFormedXml(files[i])) =>
            IF mode = "legacy"
            THEN [j \in 1..Len(fut[i].data) |-> fut[i].data[j].rom] = ElementRoms(files[i], 1)
            ELSE fut[i].roms = Len(ElementRoms(files[i], 1))

\* the same for the streaming extractor of the Staged strategy alone
C27_StreamingExtractor == mode = "staged" => C27_OneRecordPerRomElement

\* parse_game_info has returned for a name that is not empty
TitleCalled == probe.fn = "parse_game_info" /\ probe.done
               /\ probe.arg.present /\ probe.arg.chars # <<>>

\* the text of s before its first "(", the whole of s when it has none
BeforeParen(s) ==
    IF FirstAt(s, 1, LAMBDA x : x = "(") = 0 THEN s
    ELSE SubSeq(s, 1, FirstAt(s, 1, LAMBDA x : x = "(") - 1)
\* the parenthesised groups of exactly four digits of s: their positions
YearGroups(s) ==
    {i \in 1..Len(s) : /\ s[i] = "("
                       /\ \E j \in (i + 1)..Len(s) :
                            /\ s[j] = ")"
                            /\ j - i - 1 = 4
                            /\ \A m \in (i + 1)..(j - 1) : IsDigit(s[m])}

InfoCalled == probe.fn = "_get_common_info" /\ probe.done
\* the file name without its extension
Stem(path) == SubSeq(path.base, 1, Len(path.base) - 2)
\* the positions of s where t starts
Occurrences(s, t) ==
    {i \in 1..(Len(s) - Len(t) + 1) : SubSeq(s, i, i + Len(t) - 1) = t}
\* the first position of s where t starts, past the end of s when there is none
FirstOf(s, t) ==
    IF Occurrences(s, t) = {} THEN Len(s) + 1
    ELSE CHOOSE i \in Occurrences(s, t) : \A j \in Occurrences(s, t) : i <= j
\* the name follows the convention: a platform, " - ", a category and then
\* the version tag if there is one, with neither platform nor category blank
Conventional(s) ==
    /\ FirstOf(s, <<" ", "-", " ">>) < FirstOf(s, <<"(TOSEC">>)
    /\ Strip(SubSeq(s, 1, FirstOf(s, <<" ", "-", " ">>) - 1)) # <<>>
    /\ Strip(SubSeq(s, FirstOf(s, <<" ", "-", " ">>) + 3, FirstOf(s, <<"(TOSEC">>) - 1)) # <<>>

\* C29: the system of a catalog file is the name of its parent directory;
\* when its name is a platform, " - ", a category and then the "(TOSEC" tag
\* if any, the platform is the trimmed segment before the first " - " and the
\* category the trimmed text from there up to the tag, or up to the extension
\* when there is no tag; a name without any " - " gets the category
\* "Standard" and, as its platform, its trimmed text up to the tag or the
\* extension
C29_PlatformCategorySystem ==
    InfoCalled =>
        /\ probe.out.system_name = probe.arg.dirs[Len(probe.arg.dirs)]
        /\ probe.out.dat_filename = probe.arg.base
        /\ Conventional(Stem(probe.arg)) =>
              /\ probe.out.platform =
                    Strip(SubSeq(Stem(probe.arg), 1, FirstOf(Stem(probe.arg), <<" ", "-", " ">>) - 1))
              /\ probe.out.category =
                    Strip(SubSeq(Stem(probe.arg), FirstOf(Stem(probe.arg), <<" ", "-", " ">>) + 3,
                                 FirstOf(Stem(probe.arg), <<"(TOSEC">>) - 1))
        /\ Occurrences(Stem(probe.arg), <<" ", "-", " ">>) = {} =>
              /\ probe.out.category = <<"Standard">>
              /\ probe.out.platform =
                    Strip(SubSeq(Stem(probe.arg), 1, FirstOf(Stem(probe.arg), <<"(TOSEC">>) - 1))

C29_Witness ==
    /\ InfoCalled
    /\ probe.arg.dirs = <<"tosec", "Amiga">>
    /\ probe.arg.base = <<"Commodore Amiga", " ", "-", " ", "Games", " ", "-", " ", "[ADF]", " ",
                          "(TOSEC", "-v2020)", ".", "dat">>
    /\ probe.out.platform = <<"Commodore Amiga">>
    /\ probe.out.category = <<"Games", " ", "-", " ", "[ADF]">>
    /\ probe.out.system_name = "Amiga"

\* the platform is the segment before the first " - " and the category the
\* remainder up to the tag, whatever the file name
C29_EveryFileName ==
    InfoCalled =>
        /\ probe.out.platform =
              Strip(SubSeq(Stem(probe.arg), 1, FirstOf(Stem(probe.arg), <<" ", "-", " ">>) - 1))
        /\ probe.out.category =
              Strip(SubSeq(Stem(probe.arg), FirstOf(Stem(probe.arg), <<" ", "-", " ">>) + 3,
                           FirstOf(Stem(probe.arg), <<"(TOSEC">>) - 1))

\* _detect_file_format has returned
DetectCalled == probe.fn = "_detect_file_format" /\ probe.done

\* the bytes a piece takes in the file
PieceBytes(p) ==
    CASE p = "crlf" -> 2
      [] p = "invalid" -> 1
      [] OTHER -> Len(PieceText(p))

\* the text in the first n bytes of the pieces ps
RECURSIVE FirstBytes(_, _)
FirstBytes(ps, n) ==
    IF ps = <<>> \/ n <= 0 THEN <<>>
    ELSE IF PieceBytes(Head(ps)) <= n
         THEN PieceText(Head(ps)) \o FirstBytes(Tail(ps), n - PieceBytes(Head(ps)))
         ELSE IF Head(ps) = "crlf" THEN <<"nl">>
              ELSE SubSeq(PieceText(Head(ps)), 1, n)
\* every character of the file takes one byte
SingleBytes(ps) == \A i \in 1..Len(ps) : ps[i] \notin {"crlf", "invalid"}

\* C30: the detected format is "xml" when the lower-cased first 1KB of the
\* file holds an XML marker, else "cmp" when it holds a legacy marker, else
\* "unknown"; a file that cannot be read gives "unknown"
C30_FunctionOfFirstKB ==
    DetectCalled =>
        probe.out = IF probe.arg.readable
                    THEN Classify(LowerStr(FirstBytes(probe.arg.pieces, HeadSize)))
                    ELSE "unknown"

\* the same for the files in which every character takes one byte, and on
\* every file the call returns one of the three formats
C30_SingleByteFiles ==
    DetectCalled =>
        /\ probe.out \in {"xml", "cmp", "unknown"}
        /\ ~probe.arg.readable => probe.out = "unknown"
        /\ (probe.arg.readable /\ SingleBytes(probe.arg.pieces)) =>
              probe.out = Classify(LowerStr(FirstBytes(probe.arg.pieces, HeadSize)))

\* record total and error tally of the Direct strategy over the files of fs
\* when every progress update returns: a file whose stream raises leaves its
\* full batches in the total and counts as one error
RECURSIVE DirectInListOrder(_)
DirectInListOrder(fs) ==
    IF fs = <<>> THEN [total |-> 0, errors |-> 0]
    ELSE LET Go(st, rest) ==
                 [total |-> rest.total + (IF st.err = NoExc THEN Len(st.rows)
                                          ELSE FullBatches(st, DirectChunkSize) * DirectChunkSize),
                  errors |-> rest.errors + (IF st.err = NoExc THEN 0 ELSE 1)]
         IN  Go(TurboParse(File(Head(fs))), DirectInListOrder(Tail(fs)))

\* record total and error tally of a session of configuration c in mode m
\* over the files of fs whose progress sink returns, in an environment that
\* injects no fault
Undisturbed(c, m, fs) ==
    IF m = "legacy"
    THEN [total |-> MergeInListOrder(Blank, c, fs, FALSE).total,
          errors |-> MergeInListOrder(Blank, c, fs, FALSE).errors]
    ELSE IF m = "staged"
    THEN [total |-> StagedInListOrder(fs).total, errors |-> StagedInListOrder(fs).errors]
    ELSE DirectInListOrder(fs)

\* a library session, in an environment that injects no fault, has ended; if
\* it ran the In-Memory pool, the engine accepts the rows of all its files
\* (after a refused batch the outcome depends on the order of completion)
QuietEnd ==
    /\ Ended /\ faults = 0 /\ cfg.db = "db" /\ Len(hist) = 1 /\ files # <<>>
    /\ (mode = "legacy" /\ fut # <<>>)
         => \A i \in Range(files) : FirstBadRow(InMemoryParse(File(i))) = 0

\* C31: the record total and the error tally with which a session ends are
\* those of the same session with a progress sink that returns, whatever its
\* own progress sink does, and so is the way it ends
C31_SinkNeverAffects ==
    QuietEnd =>
        /\ outcome.total = Undisturbed(cfg, mode, files).total
        /\ outcome.errors = Undisturbed(cfg, mode, files).errors

\* with a progress sink that returns the session ends with these numbers, and
\* with one that raises the record total is still the same
C31_ReturningSink ==
    QuietEnd =>
        /\ outcome.total = Undisturbed(cfg, mode, files).total
        /\ callback = "none" => outcome.errors = Undisturbed(cfg, mode, files).errors

\* C32: when a session of the In-Memory or the Staged strategy has ended, by
\* returning or by raising, its progress-refresh timer has been told to stop
\* and has been joined
C32_TimerStopped ==
    (Ended /\ mode \in {"legacy", "staged"} /\ files # <<>>) => monitor = "stopped"

\* the same for the sessions that return, and for all those of the Staged
\* strategy
C32_TimerStoppedOnReturn ==
    (Ended /\ mode \in {"legacy", "staged"} /\ files # <<>>
           /\ (outcome.kind = "returned" \/ mode = "staged"))
    => monitor = "stopped"

\* the coordinator finishes handling file i of the list in this step without
\* leaving the loop
Handles(i) ==
    IF fut # <<>>
    THEN pc = "pool" /\ fut[i].st = "done" /\ fut'[i].st = "handled"
    ELSE pc \in {"serial", "direct"} /\ idx = i /\ idx' = i + 1
\* what the handling of file i did: it counted the file as an error and took
\* none of its records, or it counted no error and, for a file of unknown
\* format, changed nothing but the progress
OneOutcome(i) ==
    \/ /\ error_count' = error_count + 1
       /\ total_roms' = total_roms /\ buffer' = buffer /\ roms' = roms
    \/ /\ error_count' = error_count
       /\ DetectFileFormat(File(files[i])) = "unknown"
            => (total_roms' = total_roms /\ buffer' = buffer /\ roms' = roms)
\* no file is handled twice and none is dropped: the loop position moves one
\* file at a time, a handled result stays handled, and the strategy ends
\* normally only past the last file
EachOnce ==
    /\ idx' \in {idx, idx + 1}
    /\ \A i \in DOMAIN fut :
          /\ fut[i].st = "handled" => fut'[i].st = "handled"
          /\ (fut[i].st # "handled" /\ fut'[i].st = "handled") => fut[i].st = "done"
    /\ (pc' \in {"idle", "cleanup"} /\ outcome'.kind \in {"returned", "returning"})
          => IF fut # <<>> THEN \A i \in DOMAIN fut : fut[i].st = "handled"
             ELSE idx = Len(files) + 1

\* C33: while a session runs, every file is handled exactly once and its
\* handling has exactly one outcome: merged, skipped as of unknown format, or
\* counted as one error
C33_OneOutcomePerFile ==
    [][ SessionActive =>
          /\ EachOnce
          /\ \A i \in DOMAIN files : Handles(i) => OneOutcome(i) ]_vars

\* the same for the sessions built from a namespace whose progress sink
\* returns, over files whose rows the engine accepts, in an environment
\* that injects no fault
C33_QuietOneOutcome ==
    [][ ( /\ SessionActive
          /\ faults' = 0
          /\ callback = "none"
          /\ cfg.args = "namespace" \/ mode # "legacy"
          /\ \A i \in Range(files) : FirstBadRow(InMemoryParse(File(i))) = 0 \/ mode # "legacy" )
        => /\ EachOnce
           /\ \A i \in DOMAIN files : Handles(i) => OneOutcome(i) ]_vars

\* the rows that this step adds to the destination
Inserted == BagCardinality(roms') - BagCardinality(roms)

\* C34: in the In-Memory and Direct strategies the running record total
\* grows in a step by exactly the number of rows that the step inserts into
\* the destination, so that at every point of the call it equals the rows
\* inserted so far
C34_TotalIsInserted ==
    [][ (SessionActive /\ mode \in {"legacy", "direct"}) => total_roms' - total_roms = Inserted ]_vars

\* the same for the Direct strategy alone, whose insert is one statement
C34_DirectTotalIsInserted ==
    [][ (SessionActive /\ mode = "direct") => total_roms' - total_roms = Inserted ]_vars

\* in the In-Memory strategy the total never grows by more than was inserted,
\* and it grows by exactly that whenever the insert returns
C34_TotalNeverAhead ==
    [][ (SessionActive /\ mode = "legacy")
        => /\ total_roms' - total_roms <= Inserted
           /\ total_roms' # total_roms => total_roms' - total_roms = Inserted ]_vars

\* a Staged library session, the first call on the database, has returned
StagedReturned ==
    /\ Ended
    /\ mode = "staged"
    /\ files # <<>>
    /\ outcome.kind = "returned"
    /\ Len(hist) = 1
    /\ hist[1].entry = "library"
\* the rows the database held before that call: those of the files marked as
\* processed (the Staged strategy marks none)
RowsBefore == ImportedRows({i \in CleanFiles : Basename(File(i)) \in processed})
BulkLoaded == BagCardinality(roms) - BagCardinality(RowsBefore)

\* C35: when a Staged ingest returns normally, the number of rows bulk-loaded
\* into the destination equals the record total it reports
C35_LoadedIsReported == StagedReturned => BulkLoaded = outcome.total

\* the same for the sessions in which no environment fault occurred and no
\* two files share a base name
C35_QuietLoadedIsReported ==
    ( /\ StagedReturned
      /\ faults = 0
      /\ \A i, j \in Range(files) : i # j => Basename(File(i)) # Basename(File(j)) )
    => BulkLoaded = outcome.total

(***************************************************************************)
(* session.py: a further ingest call on the same ImportSession object.     *)
(***************************************************************************)
MaxCalls == 2          \* ingest calls on one session object

\* ImportSession.ingest(fs, m, cb) on a session that has been used: an empty
\* list returns before anything is touched; otherwise the two statistics
\* are reset (the buffer is not) and the strategy starts
Ingest(fs, m, cb) ==
    /\ files' = fs
    /\ mode' = m
    /\ callback' = cb
    /\ UNCHANGED <<roms, processed, version, cfg, buffer, scan>>
    /\ IF fs = <<>>
       THEN /\ outcome' = [kind |-> "returned", total |-> 0, errors |-> 0, exc |-> NoExc]
            /\ hist' = Append(hist, Past("library", m, fs, "returned", 0, 0))
            /\ UNCHANGED <<total_roms, error_count, pbar, idx, sent, fut, faults,
                           tempdir, monitor, pc>>
       ELSE /\ total_roms' = 0
            /\ error_count' = 0
            /\ pbar' = 0
            /\ idx' = 1
            /\ sent' = 0
            /\ outcome' = NoOutcome
            /\ UNCHANGED hist
            /\ \E ok \in BOOLEAN :
                 /\ ok \/ (m = "staged" /\ tempdir.exists /\ faults < MaxFaults)
                 /\ faults' = faults + (IF ok THEN 0 ELSE 1)
                 /\ tempdir' = IF m = "staged" THEN PrepareTempDir(tempdir, ok) ELSE tempdir
            /\ monitor' = IF m = "direct" THEN "none" ELSE "running"
            /\ fut' = IF m = "staged" \/ (m = "legacy" /\ cfg.workers >= 2)
                      THEN [i \in 1..Len(fs) |-> [st |-> "pending", data |-> <<>>,
                                                  roms |-> 0, exc |-> NoExc]]
                      ELSE <<>>
            /\ pc' = IF m = "direct" THEN "direct"
                     ELSE IF m = "staged" \/ cfg.workers >= 2 THEN "pool"
                     ELSE "serial"

\* a library caller constructs a session from a namespace and calls ingest
FirstIngest ==
    /\ pc = "idle"
    /\ runs = 0
    /\ runs' = runs + 1
    /\ UNCHANGED probe
    /\ \E w \in {1, CpuCount}, b \in BatchSizes, fs \in FileLists, m \in Modes,
          cb \in Callbacks :
          StartIngest(Construct("db", "namespace", w, b), fs, m, cb, 0)

\* the lists of the later calls: empty or of one file
ShortLists == {fs \in FileLists : Len(fs) <= 1}

\* the library caller calls ingest again on the session of the last call
IngestAgain ==
    /\ pc = "idle"
    /\ runs \in 1..(MaxCalls - 1)
    /\ runs' = runs + 1
    /\ UNCHANGED probe
    /\ \E fs \in ShortLists, m \in Modes, cb \in Callbacks : Ingest(fs, m, cb)

\* a library caller that uses one session for several ingest calls
NextReuse ==
    \/ FirstIngest
    \/ IngestAgain
    \/ RunSerialStep
    \/ RunSerialEnd
    \/ \E i \in 1..MaxFiles : WorkerStart(i)
    \/ \E i \in 1..MaxFiles : WorkerFinish(i)
    \/ \E i \in 1..MaxFiles : CoordinatorHandle(i)
    \/ PoolShutdown
    \/ PoolDone
    \/ RemoveTempDir
    \/ DirectStep
    \/ DirectEnd

SpecReuse == InitFresh /\ [][NextReuse]_vars

\* the records that the files of the list fs hold for the strategy m
RECURSIVE Records(_, _)
Records(m, fs) ==
    IF fs = <<>> THEN 0
    ELSE (IF m = "legacy" THEN Len(InMemoryParse(File(Head(fs))))
          ELSE Len(TurboParse(File(Head(fs))).rows)) + Records(m, Tail(fs))
\* a call that has ended reports no more records than its files hold and no
\* more errors than it has files
TotalsWithin(o, m, fs) ==
    o.kind \in {"returned", "raised"}
        => o.total <= Records(m, fs) /\ o.errors <= Len(fs)
\* the rows that a step commits are rows of the files of the running call
OwnRows ==
    \A r \in BagToSet(roms') :
        CopiesIn(r, roms') > CopiesIn(r, roms)
            => \E i \in Range(files) : Basename(File(i)) = r.file
\* a call with an empty list returns zero totals and changes nothing
EmptyListNoChange ==
    (runs' = runs + 1 /\ files' = <<>>)
    => /\ outcome'.kind = "returned" /\ outcome'.total = 0 /\ outcome'.errors = 0
       /\ UNCHANGED <<roms, processed, version, tempdir, buffer, total_roms, error_count>>

\* C36: each ingest call on a session accounts only for its own work: what
\* it reports and what it commits comes from the files passed to it, after
\* any earlier calls on the same session, and an empty list returns zero
\* totals and changes nothing
C36_OwnWorkOnly ==
    [][ runs' >= 1 => (TotalsWithin(outcome', mode', files') /\ OwnRows /\ EmptyListNoChange) ]_vars

\* the same for the calls on a session whose earlier calls all returned
C36_OwnWorkAfterReturns ==
    [][ (runs' >= 1 /\ \A k \in DOMAIN hist : hist[k].ended = "returned")
        => (TotalsWithin(outcome', mode', files') /\ OwnRows /\ EmptyListNoChange) ]_vars

\* a call with an empty list, after any earlier call
C36_EmptyList == [][ EmptyListNoChange ]_vars

\* the records that the In-Memory coordinator receives for file i of the list
DataOf(i) == IF fut # <<>> THEN fut[i].data ELSE InMemoryParse(File(files[i]))
\* the handling of file i, whose records are not empty and are acceptable to
\* the engine together with those buffered, by a session whose args object
\* is a, with a sink that returns and without an environment fault
MergesAtThreshold(a) ==
    ( /\ SessionActive
      /\ mode = "legacy"
      /\ cfg.args = a
      /\ callback = "none"
      /\ faults' = faults )
    => \A i \in DOMAIN files :
          ( /\ Handles(i)
            /\ DataOf(i) # <<>>
            /\ FirstBadRow(buffer \o DataOf(i)) = 0 )
          => /\ error_count' = error_count
             /\ IF Len(buffer) + Len(DataOf(i)) >= cfg.batch_size
                THEN buffer' = <<>> /\ total_roms' = total_roms + Len(buffer) + Len(DataOf(i))
                ELSE buffer' = buffer \o DataOf(i) /\ total_roms' = total_roms

\* C37: a session constructed without an args object that runs the In-Memory
\* strategy flushes at the batch_size given to the constructor, and a file
\* that parses to a non-empty record list is merged without an error being
\* counted
C37_LibraryBatchSize == [][ MergesAtThreshold("none") ]_vars

\* the same for a session constructed from a namespace
C37_NamespaceBatchSize == [][ MergesAtThreshold("namespace") ]_vars

Scanned == probe.done /\ probe.fn = "game_blocks"
IsOpen(x) == x \in {"game (", "Game (", "rom (", "clrmamepro (", "("}
\* the depth after lexeme j of the text c for the opener at i: 1, plus the
\* opening and minus the closing parentheses of c[i+1..j]
DepthAt(c, i, j) ==
    1 + Cardinality({k \in (i + 1)..j : IsOpen(c[k])})
      - Cardinality({k \in (i + 1)..j : c[k] = ")"})
\* the first index after i where the depth is zero; 0: there is none
ClosingOf(c, i) ==
    LET S == {j \in (i + 1)..Len(c) : DepthAt(c, i, j) = 0}
    IN  IF S = {} THEN 0 ELSE CHOOSE j \in S : \A k \in S : j <= k
\* the text strictly between each opener and its closing parenthesis, for
\* the openers that have one, in the order of the text
BlocksBetween(c) ==
    LET closed == SelectSeq(Openers(c), LAMBDA i : ClosingOf(c, i) # 0)
    IN  [k \in 1..Len(closed) |-> SubSeq(c, closed[k] + 1, ClosingOf(c, closed[k]) - 1)]

\* C38: the block scanner ends on every text; after each opener its depth
\* starts at 1, goes up on "(" and down on ")" and is never negative; the
\* loop stops where the depth first is zero and the block is the text
\* strictly between the opener and that parenthesis; an opener whose depth
\* never returns to zero gives no block (and no error)
C38_BlockScanner ==
    Scanned =>
      /\ probe.out.blocks = BlocksBetween(probe.arg)
      /\ \A k \in 1..Len(Openers(probe.arg)) :
           \E i \in {Openers(probe.arg)[k]}, t \in {probe.out.depths[k]} :
             /\ Len(t) <= Len(probe.arg) - i
             /\ \A n \in 1..Len(t) : t[n] = DepthAt(probe.arg, i, i + n) /\ t[n] >= 0
             /\ \A n \in 1..(Len(t) - 1) : t[n] > 0
             /\ Len(t) = (IF ClosingOf(probe.arg, i) # 0 THEN ClosingOf(probe.arg, i) - i
                          ELSE Len(probe.arg) - i)

\* a text with a nested parenthesis inside a closed block and with an opener
\* that is never closed
C38_Witness ==
    /\ Scanned
    /\ \E i \in Range(Openers(probe.arg)) :
          /\ ClosingOf(probe.arg, i) # 0
          /\ \E j \in (i + 1)..(ClosingOf(probe.arg, i) - 1) : probe.arg[j] = "("
    /\ \E i \in Range(Openers(probe.arg)) : ClosingOf(probe.arg, i) = 0
    /\ Len(probe.out.blocks) = 1

\* the staging writer has returned its stats
StatsReturned ==
    probe.done /\ probe.fn = "parse_and_save_chunks" /\ probe.out.exc = NoExc
\* the chunk files it wrote hold n records in all, their indices are 0..k-1
\* for the k files written, and each holds between 1 and chunk_size records
ChunkFilesSound(n) ==
    /\ n = BagCardinality(ChunkRows(probe.out.chunks, DOMAIN probe.out.chunks))
    /\ {q[2] : q \in DOMAIN probe.out.chunks} = 0..(Cardinality(DOMAIN probe.out.chunks) - 1)
    /\ \A q \in DOMAIN probe.out.chunks :
          Len(probe.out.chunks[q]) \in 1..probe.arg.chunk_size

\* C39: the stats that the staging writer returns count the records of its
\* chunk files (roms) and the chunk files it wrote (chunks); the chunk
\* indices are 0..chunks-1 and each chunk holds 1..chunk_size records
C39_StatsMatchChunks ==
    StatsReturned
    => /\ ChunkFilesSound(probe.out.stats.roms)
       /\ probe.out.stats.chunks = Cardinality(DOMAIN probe.out.chunks)

\* the same without the count of chunk files, which is right exactly when
\* the last chunk is a partial one and else is one too many
C39_ButChunkCount ==
    StatsReturned
    => /\ ChunkFilesSound(probe.out.stats.roms)
       /\ probe.out.stats.chunks =
            Cardinality(DOMAIN probe.out.chunks)
            + (IF probe.out.stats.roms % probe.arg.chunk_size = 0 THEN 1 ELSE 0)

=============================================================================
